---- MODULE Spec2Model ----
(***************************************************************************)
(* Model of the pump.fun stream correlator (src/src/main.rs and            *)
(* src/src/instruction_account_mapper.rs): the dual-tier correlation       *)
(* cache, the enrichment of buy/sell instructions, the vault fallback      *)
(* chain and the two routing loops.                                        *)
(*                                                                         *)
(* Text is modelled as a sequence of lines.  A line "LABEL: value" is the  *)
(* record [l |-> LABEL, s |-> text value, n |-> numerator, d |-> denom];   *)
(* d = 0 marks a text value, d = 1 an integer, d > 1 a decimal fraction.   *)
(* A section pushed as "\n\nHEADER:\nvalue" is a blank line, a line whose  *)
(* label is HEADER and whose value is empty, and an unlabelled value line. *)
(***************************************************************************)
EXTENDS Integers, Sequences, FiniteSets, TLC

----------------------------------------------------------------------------
(* Option<T>: None is the empty tuple, Some(x) the one-element tuple.      *)
None == <<>>
Some(x) == <<x>>
IsSome(o) == o # <<>>
Unwrap(o) == o[1]

(* Index of the first element of seq satisfying Test, 0 when there is none *)
(* (Iterator::find / str::find).                                           *)
FirstIndex(seq, Test(_)) ==
  IF \E i \in 1..Len(seq) : Test(seq[i])
  THEN CHOOSE i \in 1..Len(seq) : Test(seq[i]) /\ \A j \in 1..(i - 1) : ~Test(seq[j])
  ELSE 0

IsPrefix(p, s) == Len(p) <= Len(s) /\ SubSeq(s, 1, Len(p)) = p

----------------------------------------------------------------------------
(* Program constants.                                                      *)
PUMP_PROGRAM_ID == "6EF8rrecthR5Dkzon8Nwu78hRvfCKubJ14M5uBEwF6P"
TOKEN_PROGRAM_ID == "TokenkegQfeZyiNwAJbNbGKPFXCWuBvf9Ss623VQ5DA"
CACHE_CLEANUP_INTERVAL_SECS == 600
MAX_CACHE_AGE_SECS == 15
REDIS_CACHE_AGE_SECS == 600

SYSVAR_RENT == "SysvarRent111111111111111111111111111111111"
SYSTEM_PROGRAM == "11111111111111111111111111111111"
(* The placeholder the router uses for a missing mint or signer (a non-ASCII *)
(* literal in the source, never a well-formed address).                    *)
UNKNOWN == "unknown"

(* Addresses used as inputs.  M1 is on the allow-list of known mints, M2   *)
(* is a well-formed mint that is not.                                      *)
M1 == "DCLjJRAP4PineCmCabTKRrTVsSaggkmfgBj8AMPapump"
M2 == "amUfFDR5KxiFKpgibmPAPRwhaB9jrPcKWsBVJMhpump"
V1 == "7hTckgnGnLQR6sdH7YkqFTAA7VwTfYFaZ6EhEsU3saCX"
ATP1 == "ATokenGPvbdGVxr1b2hvZbsiqW5xWH25efTNsLJA8knL"
F1 == "CebN5WGQ4jvEPvsVU4EoHEpgzq1VV7AbicfhtW4xC9iM"
G1 == "4wTV1YmiEkRvAtNtsSGPtUrqRYQMe5SKy2uB4Jjaxnjf"
U1 == "Hju3K6uRadH7AkynqHGCZgD1W63WNa47h6DuNpTk3xsG"
PDA_M1 == "pda[bonding-curve,DCLjJRAP4PineCmCabTKRrTVsSaggkmfgBj8AMPapump]"
PDA_M2 == "pda[bonding-curve,amUfFDR5KxiFKpgibmPAPRwhaB9jrPcKWsBVJMhpump]"

(* Pubkey::from_str succeeds exactly on well-formed base-58 addresses.     *)
Pubkeys ==
  {PUMP_PROGRAM_ID, TOKEN_PROGRAM_ID, SYSVAR_RENT, SYSTEM_PROGRAM,
   M1, M2, V1, ATP1, F1, G1, U1, PDA_M1, PDA_M2,
   "4qMyinhBRrePr82BjoKheaXocfTXChBMk3TWifHypump",
   "7kJzws2KnTV73d16ZuifeFmSyupxYkp7CPYenV3Apump",
   "FqF6Ac1j71qjTxjg9mJag3zrmmnxVtXJQTxZjSPdpump",
   "pda[bonding-curve,4qMyinhBRrePr82BjoKheaXocfTXChBMk3TWifHypump]",
   "pda[bonding-curve,7kJzws2KnTV73d16ZuifeFmSyupxYkp7CPYenV3Apump]",
   "pda[bonding-curve,FqF6Ac1j71qjTxjg9mJag3zrmmnxVtXJQTxZjSPdpump]",
   "pda[bonding-curve,other]"}
IsPubkey(s) == s \in Pubkeys

(* Pubkey::find_program_address(["bonding-curve", mint], program): a       *)
(* deterministic one-way derivation, injective on the addresses used.      *)
find_program_address(mint) ==
  CASE mint = M1 -> PDA_M1
    [] mint = M2 -> PDA_M2
    [] mint = "4qMyinhBRrePr82BjoKheaXocfTXChBMk3TWifHypump" ->
         "pda[bonding-curve,4qMyinhBRrePr82BjoKheaXocfTXChBMk3TWifHypump]"
    [] mint = "7kJzws2KnTV73d16ZuifeFmSyupxYkp7CPYenV3Apump" ->
         "pda[bonding-curve,7kJzws2KnTV73d16ZuifeFmSyupxYkp7CPYenV3Apump]"
    [] mint = "FqF6Ac1j71qjTxjg9mJag3zrmmnxVtXJQTxZjSPdpump" ->
         "pda[bonding-curve,FqF6Ac1j71qjTxjg9mJag3zrmmnxVtXJQTxZjSPdpump]"
    [] OTHER -> "pda[bonding-curve,other]"

(* str::to_lowercase on the account names that occur.                      *)
to_lowercase(name) ==
  CASE name = "associatedTokenProgram" -> "associatedtokenprogram"
    [] name = "creatorVault" -> "creatorvault"
    [] name = "feeRecipient" -> "feerecipient"
    [] name = "bondingCurve" -> "bondingcurve"
    [] OTHER -> name

----------------------------------------------------------------------------
(* Lines of text.                                                          *)
TextLine(l, s) == [l |-> l, s |-> s, n |-> 0, d |-> 0]
NumLine(l, n) == [l |-> l, s |-> "", n |-> n, d |-> 1]
RatLine(l, q) == [l |-> l, s |-> "", n |-> q[1], d |-> q[2]]
BlankLine == TextLine("", "")
(* "\n\nHEADER:\n" followed by a body of lines.                            *)
Section(header, body) == <<BlankLine, TextLine(header, "")>> \o body

(* Section headers and labels (non-ASCII literals in the source, rendered   *)
(* here by their meaning).                                                 *)
VAULT_HEADER == "creator vault address"
CURVE_HEADER == "associated curve account"
CURVE_DATA_HEADER == "bonding curve account data"
RESERVES_HEADER == "virtual reserves info"
PRICE_HEADER == "price info"
MINT_HEADER == "MINT address"

(* str::parse::<u64>() of the value of a line.                             *)
parse_u64(line) == IF line.d = 1 /\ line.n >= 0 THEN Some(line.n) ELSE None

----------------------------------------------------------------------------
(* Numbers.  TLC integers are 32-bit, so the u64 type is modelled with     *)
(* WordBits bits.                                                          *)
WordBits == 30
WordMax == (2 ^ (WordBits - 1) - 1) * 2 + 1

RECURSIVE Gcd(_, _)
Gcd(a, b) == IF b = 0 THEN a ELSE Gcd(b, a % b)

(* A non-negative rational as a reduced fraction <<numerator, denom>>.     *)
Rational(n, d) == LET g == Gcd(n, d) IN <<n \div g, d \div g>>

(* calculate_price without the adjustment for the decimals of the two      *)
(* currencies.                                                             *)
calculate_price_Unscaled(vt, vs) ==
  IF vt = 0 THEN <<0, 1>> ELSE Rational(vs, vt)

(* calculate_price: 0 when vt = 0, else vs / vt * 0.001.  The f64 result   *)
(* is modelled by the exact fraction it approximates.                      *)
calculate_price(vt, vs) ==
  IF vt = 0 THEN <<0, 1>> ELSE Rational(vs, vt * 1000)

(* u64::checked_mul.                                                       *)
checked_mul(a, b) ==
  IF b # 0 /\ a > WordMax \div b THEN None ELSE Some(a * b)

(* The f64 product amount * (fee_basis_points / 10000.0) cast to u64: the   *)
(* cast truncates the fraction and saturates at the largest u64.  The      *)
(* product is split by 10000 so that no intermediate leaves the integers   *)
(* of the checker.                                                         *)
FeeByFloat(amount, fee_basis_points) ==
  LET qa == amount \div 10000
      ra == amount % 10000
      qb == fee_basis_points \div 10000
      rb == fee_basis_points % 10000
  IN  IF qa > WordMax \div fee_basis_points THEN WordMax
      ELSE LET whole == qa * fee_basis_points + ra * qb + (ra * rb) \div 10000
           IN  IF whole > WordMax THEN WordMax ELSE whole

(* calculate_creator_fee rounding the quotient up.                         *)
calculate_creator_fee_RoundingUp(amount, fee_basis_points) ==
  IF amount = 0 \/ fee_basis_points = 0 THEN 0
  ELSE IF IsSome(checked_mul(amount, fee_basis_points))
       THEN (Unwrap(checked_mul(amount, fee_basis_points)) + 9999) \div 10000
       ELSE FeeByFloat(amount, fee_basis_points)

(* calculate_creator_fee: the integer quotient when the product fits the   *)
(* word, the floating-point computation otherwise.                         *)
calculate_creator_fee(amount, fee_basis_points) ==
  IF amount = 0 \/ fee_basis_points = 0 THEN 0
  ELSE IF IsSome(checked_mul(amount, fee_basis_points))
       THEN Unwrap(checked_mul(amount, fee_basis_points)) \div 10000
       ELSE FeeByFloat(amount, fee_basis_points)

----------------------------------------------------------------------------
(* The hard-coded directories.                                             *)
common_mints ==
  << "DCLjJRAP4PineCmCabTKRrTVsSaggkmfgBj8AMPapump",
     "4qMyinhBRrePr82BjoKheaXocfTXChBMk3TWifHypump",
     "7kJzws2KnTV73d16ZuifeFmSyupxYkp7CPYenV3Apump",
     "FqF6Ac1j71qjTxjg9mJag3zrmmnxVtXJQTxZjSPdpump" >>

creator_map ==
  << <<"DCLjJRAP4PineCmCabTKRrTVsSaggkmfgBj8AMPapump", "T5SWiQQCACjAMSjTnHEbRjFzxqQyd5xoLvHqFPRqRLw">>,
     <<"4qMyinhBRrePr82BjoKheaXocfTXChBMk3TWifHypump", "2yodq5YqMk5owNYhUWjh9gNkwRxaQBYDAcJdaGC7B7vG">>,
     <<"7kJzws2KnTV73d16ZuifeFmSyupxYkp7CPYenV3Apump", "J9MBJJrqxsqBSXMk46PT5XJj9qXBzj6kcGbECdmDSQoV">>,
     <<"FqF6Ac1j71qjTxjg9mJag3zrmmnxVtXJQTxZjSPdpump", "F5RYi7FMPefkc7okJNh21HgKmFVtJYyGBm1xxvriDVYZ">>,
     <<"amUfFDR5KxiFKpgibmPAPRwhaB9jrPcKWsBVJMhpump", "Hju3K6uRadH7AkynqHGCZgD1W63WNa47h6DuNpTk3xsG">>,
     <<"A5JqPPSTf3Rc4W9R9CYLRhRowMLZLquweJgR6iDepump", "Eou3bQd3VYUzXxcLBqihFP5J5qK3W3f8Lq5CsX3EY8Yk">>,
     <<"GFVtnX25mEtpjEXc47X1AKfcd9tdPdds9FdMQoJ1pump", "HNjUCzKFHAqZVvf3mFe89X35aQdNwqKptkwViNNgUzKf">>,
     <<"7v1cnL3KtzbHYar9anc8eQGV9NYDMPgYwb526ShUpump", "BYNj1SpM6PxMUVu5hLYVdJxiP5Qv8fQ5eeqZQ213APGj">>,
     <<"F7ZDfpnBX13Uy5gK8J4mQLvMpDqa1zhajdUtfvwgpump", "BM2SfEe3rjG48RtNqLHk1KVJqb2EXfz6CuD6epn3U5Ku">>,
     <<"85578kyWUYj7kU4GeSKZ8RYoQuhxdxiVc5CXL52spump", "ChcyLqAMCm25LGFhgP9RXAd54oCbKZ1DdDmwkh4dpQsM">>,
     <<"54Pgg7FuLuP13dRQoFPTH4FdZHi141bQDzVwukt6m8Tk", "ChcyLqAMCm25LGFhgP9RXAd54oCbKZ1DdDmwkh4dpQsM">>,
     <<"7hTckgnGnLQR6sdH7YkqFTAA7VwTfYFaZ6EhEsU3saCX", "HNjUCzKFHAqZVvf3mFe89X35aQdNwqKptkwViNNgUzKf">>,
     <<"HxmpdosPST3HoZwMg8uV8hg9EoYpisyCQQAP8HAqnMQK", "BM2SfEe3rjG48RtNqLHk1KVJqb2EXfz6CuD6epn3U5Ku">> >>

find_creator_by_mint(mint) ==
  LET i == FirstIndex(creator_map, LAMBDA e : e[1] = mint)
  IN  IF i = 0 THEN None ELSE Some(creator_map[i][2])

find_creator_by_vault(vault_address) == find_creator_by_mint(vault_address)

(* calculate_curve_account_from_mint: the derived curve address, None when *)
(* the mint is not a well-formed address.                                  *)
calculate_curve_account_from_mint(mint) ==
  IF IsPubkey(mint) /\ IsPubkey(PUMP_PROGRAM_ID)
  THEN Some(find_program_address(mint))
  ELSE None

----------------------------------------------------------------------------
(* Decoded instructions of the watched program (PumpProgramIx).  tag is    *)
(* "Buy", "Sell" or "Other"; sol is max_sol_cost (Buy) or min_sol_output   *)
(* (Sell).                                                                 *)
BuyIx(amount, max_sol_cost) == [tag |-> "Buy", amount |-> amount, sol |-> max_sol_cost]
SellIx(amount, min_sol_output) == [tag |-> "Sell", amount |-> amount, sol |-> min_sol_output]
OtherIx == [tag |-> "Other", amount |-> 0, sol |-> 0]

(* PumpProgramIx::name(): the instruction name looked up in the IDL.       *)
IxName(ix) ==
  CASE ix.tag = "Buy" -> "buy"
    [] ix.tag = "Sell" -> "sell"
    [] OTHER -> "create"

----------------------------------------------------------------------------
(* Account-role descriptor (Idl) and Idl::map_accounts.                    *)
IdlAccount(name, is_signer) ==
  [name |-> name, is_mut |-> FALSE, is_signer |-> is_signer,
   writable |-> TRUE, signer |-> FALSE]
AccountMeta(pubkey, is_signer, is_writable) ==
  [pubkey |-> pubkey, is_signer |-> is_signer, is_writable |-> is_writable]

(* format!("Remaining accounts {}", n).                                    *)
RemainingName(n) ==
  CASE n = 1 -> "Remaining accounts 1"
    [] n = 2 -> "Remaining accounts 2"
    [] n = 3 -> "Remaining accounts 3"
    [] OTHER -> "Remaining accounts 4+"

(* map_accounts naming every account a remaining account when the          *)
(* descriptor does not declare the instruction.                            *)
map_accounts_Unnamed(idl, accounts, instruction_name) ==
  LET k == FirstIndex(idl, LAMBDA ix : ix.name = instruction_name)
      declared == IF k = 0 THEN <<>> ELSE idl[k].accounts
      d == Len(declared)
  IN  Some([i \in 1..Len(accounts) |->
            IF i <= d
            THEN [pubkey |-> accounts[i].pubkey,
                  is_writable |-> IF declared[i].is_mut THEN TRUE ELSE declared[i].writable,
                  is_signer |-> IF declared[i].is_signer THEN TRUE ELSE declared[i].signer,
                  name |-> declared[i].name]
            ELSE [pubkey |-> accounts[i].pubkey,
                  is_writable |-> accounts[i].is_writable,
                  is_signer |-> accounts[i].is_signer,
                  name |-> RemainingName(i - d)]])

(* map_accounts keeping the declared accounts only.                        *)
map_accounts_Truncating(idl, accounts, instruction_name) ==
  LET k == FirstIndex(idl, LAMBDA ix : ix.name = instruction_name) IN
  IF k = 0 THEN None
  ELSE LET declared == idl[k].accounts
           d == IF Len(declared) < Len(accounts) THEN Len(declared) ELSE Len(accounts)
       IN Some([i \in 1..d |->
                 [pubkey |-> accounts[i].pubkey,
                  is_writable |-> IF declared[i].is_mut THEN TRUE ELSE declared[i].writable,
                  is_signer |-> IF declared[i].is_signer THEN TRUE ELSE declared[i].signer,
                  name |-> declared[i].name]])

(* Ok(list) is Some(list), Err(InvalidArgument) is None.                   *)
map_accounts(idl, accounts, instruction_name) ==
  LET k == FirstIndex(idl, LAMBDA ix : ix.name = instruction_name) IN
  IF k = 0 THEN None
  ELSE LET declared == idl[k].accounts
           d == Len(declared)
       IN Some([i \in 1..Len(accounts) |->
            IF i <= d
            THEN [pubkey |-> accounts[i].pubkey,
                  is_writable |-> IF declared[i].is_mut THEN TRUE ELSE declared[i].writable,
                  is_signer |-> IF declared[i].is_signer THEN TRUE ELSE declared[i].signer,
                  name |-> declared[i].name]
            ELSE [pubkey |-> accounts[i].pubkey,
                  is_writable |-> accounts[i].is_writable,
                  is_signer |-> accounts[i].is_signer,
                  name |-> RemainingName(i - d)]])

----------------------------------------------------------------------------
(* extract_raw_cpi_log_data.  A JSON object is a function from field names *)
(* to values; a field that is not set is not in its domain.                *)
EmptyObject == [x \in {} |-> x]
Field(present, name, value) == IF present THEN name :> value ELSE EmptyObject
HasField(obj, name) == name \in DOMAIN obj

IsAssociatedTokenProgramName(name) ==
  to_lowercase(name) \in {"associatedtokenprogram", "associated_token_program", "associated-token-program"}
IsCreatorVaultName(name) ==
  to_lowercase(name) \in {"creator_vault", "creatorvault", "creator-vault"}
IsFeeRecipientName(name) ==
  to_lowercase(name) \in {"feerecipient", "fee_recipient"}

(* The address of the first account whose name satisfies Test.             *)
FindAccount(accounts, Test(_)) ==
  LET i == FirstIndex(accounts, LAMBDA a : Test(a.name))
  IN  IF i = 0 THEN None ELSE Some(accounts[i].pubkey)

(* Sell only: the associatedTokenProgram account, consulted first.         *)
VaultFromAssociatedTokenProgram(is_sell_operation, accounts) ==
  IF is_sell_operation THEN FindAccount(accounts, IsAssociatedTokenProgramName) ELSE None

VaultFromCreatorVault(accounts) == FindAccount(accounts, IsCreatorVaultName)

(* RentIsVault with the sysvar comparison inverted.                        *)
RentIsVault_Inverted(rent_pubkey) ==
  rent_pubkey = SYSVAR_RENT /\ rent_pubkey # "" /\ rent_pubkey # SYSTEM_PROGRAM

RentIsVault(rent_pubkey) ==
  rent_pubkey # SYSVAR_RENT /\ rent_pubkey # "" /\ rent_pubkey # SYSTEM_PROGRAM

VaultFromRent(accounts) ==
  LET rent == FindAccount(accounts, LAMBDA nm : nm = "rent")
  IN  IF IsSome(rent) /\ RentIsVault(Unwrap(rent)) THEN rent ELSE None

(* The fee-recipient stage records fee_recipient and leaves the vault      *)
(* unset.                                                                  *)
VaultFromFeeRecipient(accounts) == None

ResolveCreatorVault(is_sell_operation, accounts) ==
  LET atp == VaultFromAssociatedTokenProgram(is_sell_operation, accounts) IN
  IF IsSome(atp) THEN atp
  ELSE LET cv == VaultFromCreatorVault(accounts) IN
       IF IsSome(cv) THEN cv
       ELSE LET rent == VaultFromRent(accounts) IN
            IF IsSome(rent) THEN rent
            ELSE VaultFromFeeRecipient(accounts)

accounts_by_name(accounts) ==
  [nm \in {accounts[i].name : i \in 1..Len(accounts)} |->
     LET idx == CHOOSE i \in 1..Len(accounts) :
                  accounts[i].name = nm /\ \A j \in (i + 1)..Len(accounts) : accounts[j].name # nm
     IN  [pubkey |-> accounts[idx].pubkey, index |-> idx - 1,
          is_signer |-> accounts[idx].is_signer, is_writable |-> accounts[idx].is_writable]]

extract_raw_cpi_log_data(ix, signature, accounts, mint_address, signer_address, formatted_time, curve_account, vt_reserves, vs_reserves, clock) ==
  LET is_sell_operation == ix.tag = "Sell"
      creator_vault_pubkey == ResolveCreatorVault(is_sell_operation, accounts)
      fee_recipient == FindAccount(accounts, IsFeeRecipientName)
      global == FindAccount(accounts, LAMBDA nm : nm = "global")
      vault_creator == IF IsSome(creator_vault_pubkey)
                       THEN find_creator_by_vault(Unwrap(creator_vault_pubkey)) ELSE None
      creator == IF IsSome(vault_creator) THEN vault_creator
                 ELSE find_creator_by_mint(mint_address)
  IN  [signature |-> signature, mint |-> mint_address,
       signer |-> signer_address, time |-> formatted_time]
      @@ Field(IsSome(vt_reserves), "virtual_token_reserves", vt_reserves[1])
      @@ Field(IsSome(vs_reserves), "virtual_sol_reserves", vs_reserves[1])
      @@ Field(IsSome(curve_account), "curve_account", curve_account[1])
      @@ Field(IsSome(fee_recipient), "fee_recipient", fee_recipient[1])
      @@ Field(IsSome(creator_vault_pubkey), "creator_vault", creator_vault_pubkey[1])
      @@ Field(IsSome(creator), "creator", creator[1])
      @@ Field(IsSome(global), "global_account", global[1])
      @@ ("type" :> (IF ix.tag \in {"Buy", "Sell"} THEN ix.tag ELSE IxName(ix)))
      @@ Field(ix.tag \in {"Buy", "Sell"}, "token_amount", ix.amount)
      @@ Field(ix.tag = "Buy", "sol_amount", ix.sol)
      @@ Field(ix.tag = "Sell", "min_sol_output", ix.sol)
      @@ Field(ix.tag \in {"Buy", "Sell"}, "creator_fee_basis_points", 100)
      @@ Field(ix.tag \in {"Buy", "Sell"}, "creator_fee", calculate_creator_fee(ix.sol, 100))
      @@ ("raw_accounts" :> accounts)
      @@ ("accounts_by_name" :> accounts_by_name(accounts))
      @@ ("instruction" :> IxName(ix))
      @@ ("timestamp" :> clock)

----------------------------------------------------------------------------
(* Text payloads and the functions that read fields back out of them.      *)
RawLine(s) == TextLine("", s)

(* str::contains("BondingCurve") on a payload.                             *)
ContainsBondingCurve(text) ==
  \E i \in 1..Len(text) : text[i].s = "BondingCurve"

(* line.contains("VIRTUAL TOKEN RESERVES") also matches the Global labels  *)
(* "INITIAL VIRTUAL TOKEN RESERVES".                                       *)
extract_reserves_from_account_data(account_data_str) ==
  IF ContainsBondingCurve(account_data_str)
  THEN LET vt_i == FirstIndex(account_data_str,
                     LAMBDA ln : ln.l \in {"VIRTUAL TOKEN RESERVES", "INITIAL VIRTUAL TOKEN RESERVES"})
           vs_i == FirstIndex(account_data_str,
                     LAMBDA ln : ln.l \in {"VIRTUAL SOL RESERVES", "INITIAL VIRTUAL SOL RESERVES"})
       IN  IF vt_i # 0 /\ vs_i # 0
           THEN LET vt == parse_u64(account_data_str[vt_i])
                    vs == parse_u64(account_data_str[vs_i])
                IN  IF IsSome(vt) /\ IsSome(vs) THEN Some(<<vt[1], vs[1]>>) ELSE None
           ELSE None
  ELSE None

(* The reverse resolution comparing the queried address with the mints of  *)
(* the allow-list themselves, not with the addresses derived from them.    *)
extract_mint_address_from_account_data_Underived(account_data_str) ==
  IF ContainsBondingCurve(account_data_str)
  THEN LET p == FirstIndex(account_data_str, LAMBDA ln : ln.l = "PUBKEY") IN
       IF p # 0 /\ IsPubkey(account_data_str[p].s) /\ IsPubkey(PUMP_PROGRAM_ID)
       THEN LET m == FirstIndex(common_mints,
                       LAMBDA mint_str : IsPubkey(mint_str)
                                         /\ mint_str = account_data_str[p].s)
            IN  IF m # 0 THEN Some(common_mints[m]) ELSE None
       ELSE None
  ELSE None

(* Reverse resolution of a curve address against the allow-list.           *)
extract_mint_address_from_account_data(account_data_str) ==
  IF ContainsBondingCurve(account_data_str)
  THEN LET p == FirstIndex(account_data_str, LAMBDA ln : ln.l = "PUBKEY") IN
       IF p # 0 /\ IsPubkey(account_data_str[p].s) /\ IsPubkey(PUMP_PROGRAM_ID)
       THEN LET m == FirstIndex(common_mints,
                       LAMBDA mint_str : IsPubkey(mint_str)
                                         /\ find_program_address(mint_str) = account_data_str[p].s)
            IN  IF m # 0 THEN Some(common_mints[m]) ELSE None
       ELSE None
  ELSE None

(* extract_creator_vault_from_log: the text between the last ':' of the    *)
(* line holding the vault header and the end of that line; the payloads    *)
(* hold no JSON object, so the JSON branch finds nothing.                  *)
extract_creator_vault_from_log(log_data) ==
  LET i == FirstIndex(log_data, LAMBDA ln : ln.l = VAULT_HEADER)
      j == FirstIndex(log_data, LAMBDA ln : ln.l = "associatedTokenProgram")
  IN  IF i # 0 /\ i < Len(log_data) THEN Some(log_data[i].s)
      ELSE IF j # 0 /\ j < Len(log_data) /\ log_data[j].s # "" THEN Some(log_data[j].s)
      ELSE None

(* The account snapshot text built by the account routing loop.            *)
BondingCurveInfo(pubkey_str, bc, formatted_time) ==
  LET head == << BlankLine,
                 TextLine("ACCOUNT TYPE", "BondingCurve"),
                 TextLine("PUBKEY", pubkey_str),
                 NumLine("VIRTUAL TOKEN RESERVES", bc.virtual_token_reserves),
                 NumLine("VIRTUAL SOL RESERVES", bc.virtual_sol_reserves),
                 NumLine("REAL TOKEN RESERVES", bc.real_token_reserves),
                 NumLine("REAL SOL RESERVES", bc.real_sol_reserves),
                 NumLine("TOKEN TOTAL SUPPLY", bc.token_total_supply),
                 TextLine("COMPLETE", IF bc.complete THEN "true" ELSE "false") >>
      mint_address == extract_mint_address_from_account_data(head)
      by_mint == IF IsSome(mint_address) THEN find_creator_by_mint(mint_address[1]) ELSE None
      creator == IF IsSome(by_mint) THEN by_mint[1] ELSE UNKNOWN
  IN  head \o << TextLine("CREATOR", creator), NumLine("TIME", formatted_time) >>

GlobalInfo(pubkey_str, global, formatted_time) ==
  << BlankLine,
     TextLine("ACCOUNT TYPE", "Global"),
     TextLine("PUBKEY", pubkey_str),
     TextLine("INITIALIZED", IF global.initialized THEN "true" ELSE "false"),
     TextLine("AUTHORITY", global.authority),
     TextLine("FEE RECIPIENT", global.fee_recipient),
     NumLine("INITIAL VIRTUAL TOKEN RESERVES", global.initial_virtual_token_reserves),
     NumLine("INITIAL VIRTUAL SOL RESERVES", global.initial_virtual_sol_reserves),
     NumLine("INITIAL REAL TOKEN RESERVES", global.initial_real_token_reserves),
     NumLine("TOKEN TOTAL SUPPLY", global.token_total_supply),
     NumLine("FEE BASIS POINTS", global.fee_basis_points),
     NumLine("TIME", formatted_time) >>

(* The human-readable message of a buy or sell instruction.                *)
LogMessage(ix, mint_address, formatted_time, signature, signer_address) ==
  << TextLine("TYPE", ix.tag),
     TextLine("MINT", mint_address),
     NumLine("TOKEN AMOUNT", ix.amount),
     RatLine(IF ix.tag = "Buy" THEN "SOL COST" ELSE "MIN SOL OUTPUT", Rational(ix.sol, 1000000000)),
     NumLine("TIME", formatted_time),
     TextLine("SIGNATURE", signature),
     TextLine("signer address", signer_address) >>

VaultSection(vault) == Section(VAULT_HEADER, <<RawLine(vault)>>)
ReservesSection(vt, vs) ==
  <<BlankLine, TextLine(RESERVES_HEADER, ""),
    NumLine("virtual token reserves", vt), NumLine("virtual SOL reserves", vs)>>
PriceSection(price) == <<BlankLine, TextLine(PRICE_HEADER, ""), RatLine("current price", price)>>

----------------------------------------------------------------------------
(* DashMap: a set of entries [key, value] with at most one entry per key.  *)
(* DashInsert that adds the entry without dropping the one it replaces.    *)
DashInsert_KeepingOld(map, key, value) == map \cup {[key |-> key, value |-> value]}

DashInsert(map, key, value) ==
  {e \in map : e.key # key} \cup {[key |-> key, value |-> value]}
DashGet(map, key) ==
  IF \E e \in map : e.key = key
  THEN Some((CHOOSE e \in map : e.key = key).value)
  ELSE None
DashRetain(map, Keep(_)) == {e \in map : Keep(e.value)}
DashKeys(map) == {e.key : e \in map}

CacheItem(data, timestamp) == [data |-> data, timestamp |-> timestamp]

(* TransactionCache::get_buy_transaction / get_sell_transaction /          *)
(* get_account_data: the data of the entry, without its timestamp.         *)
get_item_data(map, key) ==
  LET item == DashGet(map, key) IN IF IsSome(item) THEN Some(item[1].data) ELSE None

(* BuyEnhancedData with the mint section put in front of the payload.      *)
BuyEnhancedData_Prepended(account_map, data, mint) ==
  IF mint = None THEN data ELSE Section(MINT_HEADER, <<RawLine(mint[1])>>) \o data

(* The payload cache_buy_transaction stores for (data, mint).              *)
BuyEnhancedData(account_map, data, mint) ==
  IF mint = None THEN data
  ELSE LET e1 == data \o Section(MINT_HEADER, <<RawLine(mint[1])>>)
           curve == calculate_curve_account_from_mint(mint[1])
       IN  IF curve = None THEN e1
           ELSE LET e2 == e1 \o Section(CURVE_HEADER, <<RawLine(curve[1])>>)
                    curve_data == get_item_data(account_map, curve[1])
                IN  IF curve_data = None THEN e2
                    ELSE LET e3 == e2 \o Section(CURVE_DATA_HEADER, curve_data[1])
                             reserves == extract_reserves_from_account_data(curve_data[1])
                             e4 == IF IsSome(reserves)
                                   THEN e3 \o ReservesSection(reserves[1][1], reserves[1][2])
                                           \o PriceSection(calculate_price(reserves[1][1], reserves[1][2]))
                                   ELSE e3
                             creator_vault == extract_creator_vault_from_log(data)
                         IN  IF IsSome(creator_vault) THEN e4 \o VaultSection(creator_vault[1]) ELSE e4

(* cache_sell_transaction, first part: the vault section re-extracted from *)
(* the text; this is the payload recorded in latest_account_data.          *)
SellVaultData(data) ==
  LET creator_vault == extract_creator_vault_from_log(data)
      atp == FirstIndex(data, LAMBDA ln : ln.l = "associatedTokenProgram")
  IN  IF IsSome(creator_vault) THEN data \o VaultSection(creator_vault[1])
      ELSE IF atp # 0 /\ atp < Len(data) THEN data \o VaultSection(data[atp].s)
      ELSE data

(* The reserves cache_sell_transaction reads for the mint, if any.         *)
SellReserves(account_map, mint) ==
  IF mint = None \/ mint = Some("") THEN None
  ELSE LET curve == calculate_curve_account_from_mint(mint[1]) IN
       IF curve = None THEN None
       ELSE LET reserves_data == get_item_data(account_map, curve[1]) IN
            IF reserves_data = None THEN None
            ELSE extract_reserves_from_account_data(reserves_data[1])

(* The payload cache_sell_transaction stores for (data, mint).             *)
SellEnhancedData(account_map, data, mint) ==
  LET e0 == SellVaultData(data) IN
  IF mint = None \/ mint = Some("") THEN e0
  ELSE LET curve == calculate_curve_account_from_mint(mint[1]) IN
       IF curve = None THEN e0
       ELSE LET e1 == e0 \o Section(CURVE_HEADER, <<RawLine(curve[1])>>)
                reserves_data == get_item_data(account_map, curve[1])
            IN  IF reserves_data = None THEN e1
                ELSE LET e2 == e1 \o Section(CURVE_DATA_HEADER, reserves_data[1])
                         reserves == extract_reserves_from_account_data(reserves_data[1])
                     IN  IF IsSome(reserves)
                         THEN e2 \o ReservesSection(reserves[1][1], reserves[1][2])
                                 \o PriceSection(calculate_price(reserves[1][1], reserves[1][2]))
                         ELSE e2

(* The entries a sweep with max_age keeps: an entry goes when its age is   *)
(* known (the clock is not behind its timestamp) and exceeds max_age.      *)
(* Expired with the comparison off by one: an age of max_age goes too.     *)
Expired_AtMaxAge(item, clock, max_age) ==
  clock >= item.timestamp /\ clock - item.timestamp >= max_age

Expired(item, clock, max_age) == clock >= item.timestamp /\ clock - item.timestamp > max_age
cleanup(map, clock, max_age) == DashRetain(map, LAMBDA item : ~Expired(item, clock, max_age))

----------------------------------------------------------------------------
(* Binary decoding.  A buffer is [size, disc, body]: its length in bytes,  *)
(* its first 8 bytes and, when the rest satisfies the layout of the type   *)
(* the discriminator names, the decoded fields.                            *)
BONDING_CURVE_ACCOUNT_DISCM == "discm:BondingCurve"
GLOBAL_ACCOUNT_DISCM == "discm:Global"

(* decode_account_data reading the discriminator whatever the length.      *)
decode_account_data_Unchecked(buf) ==
  CASE buf.disc = BONDING_CURVE_ACCOUNT_DISCM ->
         IF IsSome(buf.body)
         THEN [ok |-> TRUE, kind |-> "BondingCurve", fields |-> buf.body[1]]
         ELSE [ok |-> FALSE, message |-> "cannot deserialize BondingCurveAccount"]
    [] buf.disc = GLOBAL_ACCOUNT_DISCM ->
         IF IsSome(buf.body)
         THEN [ok |-> TRUE, kind |-> "Global", fields |-> buf.body[1]]
         ELSE [ok |-> FALSE, message |-> "cannot deserialize GlobalAccount"]
    [] OTHER -> [ok |-> FALSE, message |-> "no matching discriminator"]

(* Ok(account) is [ok |-> TRUE, ...], Err(e) is [ok |-> FALSE, message].   *)
decode_account_data(buf) ==
  IF buf.size < 8
  THEN [ok |-> FALSE, message |-> "buffer too short"]
  ELSE CASE buf.disc = BONDING_CURVE_ACCOUNT_DISCM ->
              IF IsSome(buf.body)
              THEN [ok |-> TRUE, kind |-> "BondingCurve", fields |-> buf.body[1]]
              ELSE [ok |-> FALSE, message |-> "cannot deserialize BondingCurveAccount"]
         [] buf.disc = GLOBAL_ACCOUNT_DISCM ->
              IF IsSome(buf.body)
              THEN [ok |-> TRUE, kind |-> "Global", fields |-> buf.body[1]]
              ELSE [ok |-> FALSE, message |-> "cannot deserialize GlobalAccount"]
         [] OTHER -> [ok |-> FALSE, message |-> "no matching discriminator"]

(* PumpProgramIx::deserialize: instruction data is its discriminator       *)
(* followed by the two u64 arguments.                                      *)
PumpProgramIxDeserialize(data) ==
  IF Len(data) = 0 THEN None
  ELSE CASE data[1] = "discm:buy" /\ Len(data) = 3 -> Some(BuyIx(data[2], data[3]))
         [] data[1] = "discm:sell" /\ Len(data) = 3 -> Some(SellIx(data[2], data[3]))
         [] data[1] = "discm:create" -> Some(OtherIx)
         [] OTHER -> None

----------------------------------------------------------------------------
(* Structured log sink: one file per append, named by the first 8          *)
(* characters of the signature and the millisecond clock.                  *)
SIG1 == "3xSig1AAbcdefgh"
SIG2 == "4ySig2BBbcdefgh"
ShortSig(signature) ==
  CASE signature = SIG1 -> "3xSig1AA"
    [] signature = SIG2 -> "4ySig2BB"
    [] OTHER -> signature
(* Alphabetical order of file paths (the order glob lists them in).        *)
ShortSigRank(short) == IF short = "3xSig1AA" THEN 1 ELSE IF short = "4ySig2BB" THEN 2 ELSE 3
PathBefore(f, g) ==
  \/ ShortSigRank(f.name[1]) < ShortSigRank(g.name[1])
  \/ f.name[1] = g.name[1] /\ f.name[2] < g.name[2]
(* sort_by modification time, stable on the glob order.                    *)
OlderFirst(f, g) == f.mtime < g.mtime \/ (f.mtime = g.mtime /\ PathBefore(f, g))

(* Configured cpi_log_json_max_files.                                      *)
MaxFilesConfigured == 1

(* save_raw_cpi_log_to_json pruning one file, the oldest, at each append.   *)
save_raw_cpi_log_to_json_PruningOne(dir, log_data, max_files, clock, outcome) ==
  IF outcome = "write_err" THEN dir
  ELSE LET filename == <<ShortSig(log_data["signature"]), clock>>
           written == {f \in dir : f.name # filename}
                      \cup {[name |-> filename, mtime |-> clock,
                             signature |-> log_data["signature"], type |-> log_data["type"]]}
       IN  IF max_files > 0 /\ Cardinality(written) > max_files /\ outcome # "remove_err"
           THEN {f \in written : Cardinality({g \in written : OlderFirst(g, f)}) >= 1}
           ELSE written

(* outcome: "ok", "write_err" (fs::write fails, nothing pruned) or         *)
(* "remove_err" (fs::remove_file fails for the files to prune).            *)
save_raw_cpi_log_to_json(dir, log_data, max_files, clock, outcome) ==
  IF outcome = "write_err" THEN dir
  ELSE LET filename == <<ShortSig(log_data["signature"]), clock>>
           written == {f \in dir : f.name # filename}
                      \cup {[name |-> filename, mtime |-> clock,
                             signature |-> log_data["signature"], type |-> log_data["type"]]}
           files_to_remove == Cardinality(written) - max_files
       IN  IF max_files > 0 /\ Cardinality(written) > max_files /\ outcome # "remove_err"
           THEN {f \in written : Cardinality({g \in written : OlderFirst(g, f)}) >= files_to_remove}
           ELSE written

----------------------------------------------------------------------------
VARIABLES
  pf,                   \* input and result of a pure function under test
  now,                  \* the system clock, in milliseconds
  next_cleanup,         \* instant of the cleanup timer's next tick
  buy_transactions,     \* in-process tier: buy payloads by signature
  sell_transactions,    \* in-process tier: sell payloads by signature
  account_data,         \* in-process tier: account snapshots by pubkey
  latest_account_data,  \* latest payload by mint
  latest_reserves,      \* latest (virtual token, virtual SOL) reserves by mint
  redis,                \* durable tier: entries [key, value = [data, expire_at]]
  redis_tasks,          \* detached background writes to the durable tier
  txn,                  \* the transaction routing loop
  acct,                 \* the account routing loop
  files,                \* the structured log directory
  idl,                  \* the loaded account-role descriptor, if any
  budget,               \* envelopes and clock steps still to come
  last                  \* what the last step did

cacheVars == <<buy_transactions, sell_transactions, account_data,
               latest_account_data, latest_reserves>>
vars == <<pf, now, next_cleanup, buy_transactions, sell_transactions, account_data,
          latest_account_data, latest_reserves, redis, redis_tasks, txn, acct,
          files, idl, budget, last>>

----------------------------------------------------------------------------
(* Bounds and inputs.                                                      *)
MaxEnvelopes == 2
MaxTicks == 2
TickSteps == {MAX_CACHE_AGE_SECS * 1000, REDIS_CACHE_AGE_SECS * 1000}

(* Account-role descriptors: none, or one that declares buy and sell (the  *)
(* last account of buy is the creator vault, that of sell carries the role *)
(* associatedTokenProgram) and no other instruction.                       *)
IdlRoles(last_name) ==
  << IdlAccount("global", FALSE), IdlAccount("feeRecipient", FALSE),
     IdlAccount("mint", FALSE), IdlAccount("user", TRUE), IdlAccount(last_name, FALSE) >>
IdlPump ==
  << [name |-> "buy", accounts |-> IdlRoles("creator_vault")],
     [name |-> "sell", accounts |-> IdlRoles("associatedTokenProgram")] >>
Idls == {None, Some(IdlPump)}


(* Transactions: the account keys of the message (index 0 first) and its   *)
(* instructions, each with a program-id index, data and account indexes.   *)
AccountKeys == <<U1, PUMP_PROGRAM_ID, G1, F1, M1, V1, SYSVAR_RENT, TOKEN_PROGRAM_ID>>
Instruction(program_id_index, data, accounts) ==
  [program_id_index |-> program_id_index, data |-> data, accounts |-> accounts]
IxBuy == Instruction(1, <<"discm:buy", 1000, 5000000>>, <<2, 3, 4, 0, 5>>)
IxSell == Instruction(1, <<"discm:sell", 1000, 4000000>>, <<2, 3, 4, 0, 5>>)
IxSellNoMint == Instruction(1, <<"discm:sell", 1000, 4000000>>, <<2, 3>>)
IxMalformed == Instruction(1, <<"discm:buy">>, <<2, 3, 4, 0, 5>>)
IxCreate == Instruction(1, <<"discm:create">>, <<4, 0>>)
IxToken == Instruction(7, <<"discm:transfer", 1>>, <<0, 5>>)
InstructionLists ==
  { <<IxBuy>>, <<IxSell>>, <<IxSellNoMint>>, <<IxMalformed, IxToken, IxCreate>>,
    <<IxCreate, IxMalformed, IxBuy>> }
Envelope(signature, instructions) ==
  [signature |-> signature, account_keys |-> AccountKeys,
   num_required_signatures |-> 1, instructions |-> instructions]
TxnEnvelopes == {Envelope(SIG1, instructions) : instructions \in InstructionLists}
NoEnvelope ==
  [signature |-> "", account_keys |-> <<>>, num_required_signatures |-> 0, instructions |-> <<>>]

(* Account updates: a pubkey and the raw account data.                     *)
BondingCurveFields(vt, vs) ==
  [virtual_token_reserves |-> vt, virtual_sol_reserves |-> vs,
   real_token_reserves |-> 0, real_sol_reserves |-> 0,
   token_total_supply |-> 1000000000, complete |-> FALSE]
GlobalFields ==
  [initialized |-> TRUE, authority |-> U1, fee_recipient |-> F1,
   initial_virtual_token_reserves |-> 1000000, initial_virtual_sol_reserves |-> 30000,
   initial_real_token_reserves |-> 800000, token_total_supply |-> 1000000000,
   fee_basis_points |-> 100]
Buffer(size, disc, body) == [size |-> size, disc |-> disc, body |-> body]
AccountUpdates ==
  { [pubkey |-> PDA_M1,
     data |-> Buffer(49, BONDING_CURVE_ACCOUNT_DISCM, Some(BondingCurveFields(500000, 250000000)))],
    [pubkey |-> G1, data |-> Buffer(113, GLOBAL_ACCOUNT_DISCM, Some(GlobalFields))],
    [pubkey |-> PDA_M1, data |-> Buffer(4, "", None)],
    [pubkey |-> PDA_M1, data |-> Buffer(49, "discm:other", None)],
    [pubkey |-> PDA_M1, data |-> Buffer(20, BONDING_CURVE_ACCOUNT_DISCM, None)] }

(* Keys of the durable tier: "tx:" + signature, or the pubkey itself.      *)
RedisTxKey(signature) == <<"tx:", signature>>
RedisAccountKey(pubkey) == <<"", pubkey>>
NoExpiry == 0 - 1

NoLast ==
  [op |-> "none", space |-> "", key |-> "", payload |-> <<>>, prev |-> None, t |-> 0,
   decoded |-> "", mapped |-> FALSE, sent |-> FALSE, record |-> None, snapshot |-> None,
   removed |-> {}, retained |-> {}, matched |-> FALSE, level |-> ""]

PfIdle == [ix |-> OtherIx, accounts |-> <<>>, out |-> None]

(* The state common to every specification: empty cache, empty durable     *)
(* tier, empty log directory, the clock at its origin.  The cleanup timer  *)
(* has had its first, immediate tick (a sweep of the empty cache) and      *)
(* waits for the next.                                                     *)
InitCommon ==
  /\ now = 0
  /\ next_cleanup = CACHE_CLEANUP_INTERVAL_SECS * 1000
  /\ buy_transactions = {}
  /\ sell_transactions = {}
  /\ account_data = {}
  /\ latest_account_data = {}
  /\ latest_reserves = {}
  /\ redis = {}
  /\ redis_tasks = {}
  /\ files = {}
  /\ last = NoLast

StreamInit(pc) ==
  [pc |-> pc, env |-> NoEnvelope, ip |-> 1, op |-> None, pending |-> None, acks |-> 0,
   account_include |-> {}, is_monitored_address_involved |-> FALSE]

(* The watch list: the subscription request lists the user's addresses and *)
(* the program id; the loop keeps the listed addresses other than the      *)
(* program id and a transaction matches when one of its account keys is    *)
(* among them.                                                             *)
get_txn_updates(addresses, program_id) == addresses \cup {program_id}
monitored_addresses(account_include, program_id) ==
  {addr \in account_include : addr # program_id}

(* The match made against the request's list as it is, program id and all. *)
is_monitored_address_involved_Unfiltered(account_include, account_keys, program_id) ==
  \E i \in 1..Len(account_keys) : account_keys[i] \in account_include

is_monitored_address_involved(account_include, account_keys, program_id) ==
  \E i \in 1..Len(account_keys) :
     /\ account_keys[i] \in monitored_addresses(account_include, program_id)
     /\ account_keys[i] # program_id

(* Visibility of the human-readable line of a buy or sell.                 *)
LogLevel(involved) == IF involved THEN "info" ELSE "debug"

(* The transaction loop about to await its first envelope, subscribed with *)
(* the given user addresses.                                               *)
TxnInit(addresses) ==
  [StreamInit("recv") EXCEPT !.account_include = get_txn_updates(addresses, PUMP_PROGRAM_ID)]
MonitoredConfigured == {U1}

Init ==
  /\ InitCommon
  /\ pf = PfIdle
  /\ idl \in Idls
  /\ txn = TxnInit(MonitoredConfigured)
  /\ acct = StreamInit("recv")
  /\ budget = [envelopes |-> MaxEnvelopes, ticks |-> MaxTicks]

----------------------------------------------------------------------------
(* Durable tier (Redis).  A key whose expiry has passed is gone.  SET      *)
(* replaces the value and clears the expiry; EXPIRE arms it, when the key  *)
(* exists.                                                                 *)
RedisLive(store, clock) ==
  {e \in store : e.value.expire_at = NoExpiry \/ clock < e.value.expire_at}
RedisSet(store, key, data) == DashInsert(store, key, [data |-> data, expire_at |-> NoExpiry])
RedisExpire(store, key, clock, seconds) ==
  LET held == DashGet(store, key) IN
  IF held = None THEN store
  ELSE DashInsert(store, key, [data |-> held[1].data, expire_at |-> clock + seconds * 1000])

(* A write to the durable tier: connect and SET, then EXPIRE.  The         *)
(* connection fails, a command fails, a call never returns, or the step    *)
(* succeeds.  The result is the next position of the write ("done" when it *)
(* is over) and the store after the step.                                  *)
DurableOutcomes == {"ok", "conn_err", "cmd_err", "hang"}
DurableStep(stage, op, outcome, store, clock) ==
  CASE outcome = "hang" -> [pc |-> "hung", store |-> store]
    [] outcome \in {"conn_err", "cmd_err"} -> [pc |-> "done", store |-> store]
    [] outcome = "ok" /\ stage = "set" ->
         [pc |-> "expire", store |-> RedisSet(store, op.key, op.data)]
    [] OTHER ->
         [pc |-> "done", store |-> RedisExpire(store, op.key, clock, REDIS_CACHE_AGE_SECS)]

(* tokio::spawn of a write: a new detached task, about to connect and SET. *)
Spawn(tasks, id, key, data) ==
  tasks \cup {[id |-> id, pc |-> "set", key |-> key, data |-> data]}

----------------------------------------------------------------------------
(* The transaction routing loop, per instruction.                          *)
account_metas(env, instruction) ==
  LET in_range == SelectSeq(instruction.accounts,
                            LAMBDA acc_idx : acc_idx < Len(env.account_keys))
  IN  [i \in 1..Len(in_range) |->
         AccountMeta(env.account_keys[in_range[i] + 1],
                     in_range[i] < env.num_required_signatures, TRUE)]

IsPumpInstruction(env, instruction) ==
  /\ instruction.program_id_index < Len(env.account_keys)
  /\ env.account_keys[instruction.program_id_index + 1] = PUMP_PROGRAM_ID

MappedAccounts(pump_idl, env, instruction, ix) ==
  IF pump_idl = None THEN None
  ELSE map_accounts(pump_idl[1], account_metas(env, instruction), IxName(ix))

MintAddress(mapped_accounts) ==
  LET mint == FindAccount(mapped_accounts, LAMBDA nm : nm = "mint")
  IN  IF IsSome(mint) THEN mint[1] ELSE UNKNOWN

SignerAddress(mapped_accounts) ==
  LET i == FirstIndex(mapped_accounts, LAMBDA a : a.name = "user" /\ a.is_signer)
  IN  IF i = 0 THEN UNKNOWN ELSE mapped_accounts[i].pubkey

(* RouterReserves that reports zero reserves when nothing is cached.       *)
RouterReserves_Defaulted(account_map, curve_account) ==
  IF curve_account = None \/ get_item_data(account_map, curve_account[1]) = None
  THEN Some(<<0, 0>>)
  ELSE extract_reserves_from_account_data(get_item_data(account_map, curve_account[1])[1])

(* The reserves the router reads for the derived curve account.            *)
RouterReserves(account_map, curve_account) ==
  IF curve_account = None THEN None
  ELSE LET curve_data == get_item_data(account_map, curve_account[1]) IN
       IF curve_data = None THEN None
       ELSE extract_reserves_from_account_data(curve_data[1])

(* The snapshot text cached for the curve account derived from the mint.   *)
CurveData(account_map, mint_address) ==
  LET curve_account == calculate_curve_account_from_mint(mint_address) IN
  IF curve_account = None THEN None ELSE get_item_data(account_map, curve_account[1])

ReservePart(reserves, i) == IF IsSome(reserves) THEN Some(reserves[1][i]) ELSE None

(* The vault section appended to the message, if any: the record's vault,  *)
(* else (sell only) whatever the message text itself yields.               *)
VaultText(ix, raw_log_data, log_message) ==
  IF HasField(raw_log_data, "creator_vault")
  THEN VaultSection(raw_log_data["creator_vault"])
  ELSE IF ix.tag = "Sell" /\ IsSome(extract_creator_vault_from_log(log_message))
       THEN VaultSection(extract_creator_vault_from_log(log_message)[1])
       ELSE <<>>

EnrichResult(ix, mint_address, log_message, raw_log_data, curve_data) ==
  [mint_address |-> mint_address, log_message |-> log_message,
   raw_log_data |-> raw_log_data,
   enhanced_data |-> log_message \o VaultText(ix, raw_log_data, log_message),
   curve_data |-> curve_data]

EnrichAccounts(account_map, env, ix, mapped_accounts, mint_address, signer_address, clock) ==
  EnrichResult(ix, mint_address,
    LogMessage(ix, mint_address, clock, env.signature, signer_address),
    extract_raw_cpi_log_data(ix, env.signature, mapped_accounts, mint_address,
       signer_address, clock, calculate_curve_account_from_mint(mint_address),
       ReservePart(RouterReserves(account_map, calculate_curve_account_from_mint(mint_address)), 1),
       ReservePart(RouterReserves(account_map, calculate_curve_account_from_mint(mint_address)), 2),
       clock),
    CurveData(account_map, mint_address))

(* Everything the Buy / Sell branch computes before it calls the cache:    *)
(* the message, the record, the payload to cache, and the snapshot read.   *)
Enrich(account_map, env, ix, mapped_accounts, clock) ==
  EnrichAccounts(account_map, env, ix, mapped_accounts,
                 MintAddress(mapped_accounts), SignerAddress(mapped_accounts), clock)

(* The loop after an instruction: the next instruction of the envelope, or *)
(* the next envelope.                                                      *)
TxnAdvance(t) ==
  IF t.ip < Len(t.env.instructions)
  THEN [t EXCEPT !.ip = t.ip + 1, !.pc = "ix", !.op = None, !.pending = None]
  ELSE [t EXCEPT !.ip = 1, !.pc = "recv", !.env = NoEnvelope, !.op = None, !.pending = None]

SinkOutcomes == {"ok", "write_err", "remove_err"}

----------------------------------------------------------------------------
(* Actions.                                                                *)
Spend(what) == budget' = [budget EXCEPT ![what] = @ - 1]
EnvelopeNo == MaxEnvelopes - budget.envelopes

(* Time passes; the durable tier drops the keys whose expiry is reached.   *)
Tick(d) ==
  /\ budget.ticks > 0
  /\ now' = now + d
  /\ redis' = RedisLive(redis, now + d)
  /\ Spend("ticks")
  /\ last' = [NoLast EXCEPT !.op = "step"]
  /\ UNCHANGED <<pf, next_cleanup, cacheVars, redis_tasks, txn, acct, files, idl>>

(* CleanupTask sweeping the latest-payload index as well.                  *)
CleanupTask_SweepingLatest ==
  /\ now >= next_cleanup
  /\ next_cleanup' = next_cleanup + CACHE_CLEANUP_INTERVAL_SECS * 1000
  /\ buy_transactions' = cleanup(buy_transactions, now, MAX_CACHE_AGE_SECS * 1000)
  /\ sell_transactions' = cleanup(sell_transactions, now, MAX_CACHE_AGE_SECS * 1000)
  /\ account_data' = cleanup(account_data, now, MAX_CACHE_AGE_SECS * 1000)
  /\ latest_account_data' = {}
  /\ last' = [NoLast EXCEPT !.op = "cleanup", !.t = now]
  /\ UNCHANGED <<pf, now, latest_reserves, redis, redis_tasks, txn, acct, files, idl, budget>>

(* The cleanup task: on every tick of its interval, sweep the three        *)
(* timestamped maps with MAX_CACHE_AGE_SECS and read the statistics.       *)
SpaceKeys(space, map) == {<<space, k>> : k \in DashKeys(map)}
CleanupTask ==
  LET max_age == MAX_CACHE_AGE_SECS * 1000
      before == SpaceKeys("buy", buy_transactions) \cup SpaceKeys("sell", sell_transactions)
                \cup SpaceKeys("account", account_data)
      buys == cleanup(buy_transactions, now, max_age)
      sells == cleanup(sell_transactions, now, max_age)
      accounts == cleanup(account_data, now, max_age)
      after == SpaceKeys("buy", buys) \cup SpaceKeys("sell", sells)
               \cup SpaceKeys("account", accounts)
  IN  /\ now >= next_cleanup
      /\ next_cleanup' = next_cleanup + CACHE_CLEANUP_INTERVAL_SECS * 1000
      /\ buy_transactions' = buys
      /\ sell_transactions' = sells
      /\ account_data' = accounts
      /\ last' = [NoLast EXCEPT !.op = "cleanup", !.t = now,
                                !.removed = before \ after, !.retained = after]
      /\ UNCHANGED <<pf, now, latest_account_data, latest_reserves, redis, redis_tasks,
                     txn, acct, files, idl, budget>>

(* Account stream: an account update whose data decodes; the snapshot text *)
(* goes through cache_account_data.                                        *)
AcctAccount(update) ==
  LET decoded == decode_account_data(update.data)
      account_info == IF decoded.kind = "BondingCurve"
                      THEN BondingCurveInfo(update.pubkey, decoded.fields, now)
                      ELSE GlobalInfo(update.pubkey, decoded.fields, now)
      mint == extract_mint_address_from_account_data(account_info)
      reserves == extract_reserves_from_account_data(account_info)
  IN  /\ acct.pc = "recv"
      /\ budget.envelopes > 0
      /\ decoded.ok
      /\ account_data' = DashInsert(account_data, update.pubkey, CacheItem(account_info, now))
      /\ latest_account_data' = IF IsSome(mint)
                                THEN DashInsert(latest_account_data, mint[1], account_info)
                                ELSE latest_account_data
      /\ latest_reserves' = IF IsSome(mint) /\ IsSome(reserves)
                            THEN DashInsert(latest_reserves, mint[1], reserves[1])
                            ELSE latest_reserves
      /\ redis_tasks' = Spawn(redis_tasks, <<EnvelopeNo, 0>>,
                               RedisAccountKey(update.pubkey), account_info)
      /\ Spend("envelopes")
      /\ last' = [NoLast EXCEPT !.op = "account", !.space = "account", !.key = update.pubkey,
                                !.payload = account_info, !.t = now,
                                !.prev = DashGet(account_data, update.pubkey)]
      /\ UNCHANGED <<pf, now, next_cleanup, buy_transactions, sell_transactions, redis,
                     txn, acct, files, idl>>

(* AcctDecodeError propagating the error out of the loop.                  *)
AcctDecodeError_Fatal(update) ==
  /\ acct.pc = "recv"
  /\ budget.envelopes > 0
  /\ ~decode_account_data(update.data).ok
  /\ Spend("envelopes")
  /\ acct' = [acct EXCEPT !.pc = "closed"]
  /\ last' = [NoLast EXCEPT !.op = "account_skip", !.key = update.pubkey, !.decoded = "Err",
                            !.payload = <<decode_account_data(update.data).message>>,
                            !.level = "error"]
  /\ UNCHANGED <<pf, now, next_cleanup, cacheVars, redis, redis_tasks, txn, files, idl>>

(* Account stream: an account update whose data does not decode; the       *)
(* error's message is logged at debug level.                               *)
AcctDecodeError(update) ==
  /\ acct.pc = "recv"
  /\ budget.envelopes > 0
  /\ ~decode_account_data(update.data).ok
  /\ Spend("envelopes")
  /\ last' = [NoLast EXCEPT !.op = "account_skip", !.key = update.pubkey, !.decoded = "Err",
                            !.payload = <<decode_account_data(update.data).message>>,
                            !.level = "debug"]
  /\ UNCHANGED <<pf, now, next_cleanup, cacheVars, redis, redis_tasks, txn, acct, files, idl>>

(* Account stream: a ping is answered with one acknowledgment on the       *)
(* stream's request channel; a failed send ends the loop.                  *)
AcctPing(sent) ==
  /\ acct.pc = "recv"
  /\ budget.envelopes > 0
  /\ acct' = IF sent THEN [acct EXCEPT !.acks = @ + 1] ELSE [acct EXCEPT !.pc = "closed"]
  /\ Spend("envelopes")
  /\ last' = [NoLast EXCEPT !.op = "ping", !.space = "acct", !.sent = sent]
  /\ UNCHANGED <<pf, now, next_cleanup, cacheVars, redis, redis_tasks, txn, files, idl>>

(* Account stream: a pong, another tag, or an update without account.      *)
AcctOther ==
  /\ acct.pc = "recv"
  /\ budget.envelopes > 0
  /\ Spend("envelopes")
  /\ last' = [NoLast EXCEPT !.op = "other", !.space = "acct"]
  /\ UNCHANGED <<pf, now, next_cleanup, cacheVars, redis, redis_tasks, txn, acct, files, idl>>

(* What ends a routing loop: an envelope without tag, a transport error,   *)
(* or the end of the stream.                                               *)
CloseCauses == {"no_tag", "error", "end"}

(* AcctClose going on to the next envelope.                                *)
AcctClose_Continuing(cause) ==
  /\ acct.pc = "recv"
  /\ budget.envelopes > 0
  /\ Spend("envelopes")
  /\ last' = [NoLast EXCEPT !.op = "close", !.space = "acct", !.key = cause]
  /\ UNCHANGED <<pf, now, next_cleanup, cacheVars, redis, redis_tasks, txn, acct, files, idl>>

(* Account stream: the loop ends.                                          *)
AcctClose(cause) ==
  /\ acct.pc = "recv"
  /\ budget.envelopes > 0
  /\ acct' = [acct EXCEPT !.pc = "closed"]
  /\ Spend("envelopes")
  /\ last' = [NoLast EXCEPT !.op = "close", !.space = "acct", !.key = cause]
  /\ UNCHANGED <<pf, now, next_cleanup, cacheVars, redis, redis_tasks, txn, files, idl>>

(* TxnReceive taking the next envelope while the instructions of the one   *)
(* at hand are not all done.                                               *)
TxnReceive_Overlapping(env) ==
  /\ txn.pc \in {"recv", "ix"}
  /\ budget.envelopes > 0
  /\ txn' = IF Len(env.instructions) = 0 THEN txn
            ELSE [txn EXCEPT !.pc = "ix", !.env = env, !.ip = 1,
                             !.is_monitored_address_involved =
                                is_monitored_address_involved(txn.account_include,
                                                              env.account_keys, PUMP_PROGRAM_ID)]
  /\ Spend("envelopes")
  /\ last' = [NoLast EXCEPT !.op = "recv", !.key = env.signature,
                            !.matched = is_monitored_address_involved(txn.account_include,
                                                                      env.account_keys, PUMP_PROGRAM_ID)]
  /\ UNCHANGED <<pf, now, next_cleanup, cacheVars, redis, redis_tasks, acct, files, idl>>

(* Transaction stream: a transaction update arrives; its instructions are *)
(* then taken in order.                                                    *)
TxnReceive(env) ==
  /\ txn.pc = "recv"
  /\ budget.envelopes > 0
  /\ txn' = IF Len(env.instructions) = 0 THEN txn
            ELSE [txn EXCEPT !.pc = "ix", !.env = env, !.ip = 1,
                             !.is_monitored_address_involved =
                                is_monitored_address_involved(txn.account_include,
                                                              env.account_keys, PUMP_PROGRAM_ID)]
  /\ Spend("envelopes")
  /\ last' = [NoLast EXCEPT !.op = "recv", !.key = env.signature,
                            !.matched = is_monitored_address_involved(txn.account_include,
                                                                      env.account_keys, PUMP_PROGRAM_ID)]
  /\ UNCHANGED <<pf, now, next_cleanup, cacheVars, redis, redis_tasks, acct, files, idl>>

(* What the loop makes of the instruction at hand: its decoding, and the   *)
(* account roles when a descriptor maps them.                              *)
CurrentInstruction == txn.env.instructions[txn.ip]
CurrentDecoded ==
  IF IsPumpInstruction(txn.env, CurrentInstruction)
  THEN PumpProgramIxDeserialize(CurrentInstruction.data)
  ELSE None
CurrentMapped ==
  IF CurrentDecoded = None THEN None
  ELSE MappedAccounts(idl, txn.env, CurrentInstruction, CurrentDecoded[1])
CurrentIsTrade(tag) ==
  /\ txn.pc = "ix"
  /\ CurrentDecoded # None
  /\ CurrentDecoded[1].tag = tag
  /\ CurrentMapped # None

(* The enrichment of the instruction at hand; the watch list has no part   *)
(* in it.                                                                  *)
CurrentEnrichment == Enrich(account_data, txn.env, CurrentDecoded[1], CurrentMapped[1], now)

(* What an instruction that yields nothing leaves in the program's log: a  *)
(* debug line when it decoded, nothing when it is another program's or its *)
(* data does not decode.                                                   *)
SkipLevel == IF CurrentDecoded # None THEN "debug" ELSE ""

(* TxnSkip giving up the rest of the transaction.                          *)
TxnSkip_Aborting ==
  /\ txn.pc = "ix"
  /\ ~CurrentIsTrade("Buy")
  /\ ~CurrentIsTrade("Sell")
  /\ txn' = [txn EXCEPT !.ip = 1, !.pc = "recv", !.env = NoEnvelope, !.op = None,
                        !.pending = None]
  /\ last' = [NoLast EXCEPT !.op = "ix_skip", !.key = txn.env.signature,
                            !.decoded = IF ~IsPumpInstruction(txn.env, CurrentInstruction) THEN ""
                                        ELSE IF CurrentDecoded = None THEN "Err"
                                        ELSE CurrentDecoded[1].tag,
                            !.mapped = CurrentMapped # None,
                            !.level = SkipLevel]
  /\ UNCHANGED <<pf, now, next_cleanup, cacheVars, redis, redis_tasks, acct, files, idl, budget>>

(* An instruction that yields nothing: another program's, undecodable,     *)
(* without descriptor or with one that does not declare it, or neither buy *)
(* nor sell.                                                               *)
TxnSkip ==
  /\ txn.pc = "ix"
  /\ ~CurrentIsTrade("Buy")
  /\ ~CurrentIsTrade("Sell")
  /\ txn' = TxnAdvance(txn)
  /\ last' = [NoLast EXCEPT !.op = "ix_skip", !.key = txn.env.signature,
                            !.decoded = IF ~IsPumpInstruction(txn.env, CurrentInstruction) THEN ""
                                        ELSE IF CurrentDecoded = None THEN "Err"
                                        ELSE CurrentDecoded[1].tag,
                            !.mapped = CurrentMapped # None,
                            !.level = SkipLevel]
  /\ UNCHANGED <<pf, now, next_cleanup, cacheVars, redis, redis_tasks, acct, files, idl, budget>>

(* cache_buy_transaction: the in-process insert and the detached durable   *)
(* write of the payload it builds.                                         *)
BuyStore(signature, enhanced_data) ==
  /\ buy_transactions' = DashInsert(buy_transactions, signature, CacheItem(enhanced_data, now))
  /\ redis_tasks' = Spawn(redis_tasks, <<EnvelopeNo, txn.ip>>, RedisTxKey(signature), enhanced_data)
cache_buy_transaction(signature, data, mint) ==
  BuyStore(signature, BuyEnhancedData(account_data, data, mint))

(* BuyBranch caching and recording only the buys of matched transactions.  *)
BuyBranch_MatchedOnly(e, signature, sink_outcome) ==
  /\ IF txn.is_monitored_address_involved
     THEN /\ cache_buy_transaction(signature, e.enhanced_data, Some(e.mint_address))
          /\ files' = save_raw_cpi_log_to_json(files, e.raw_log_data, MaxFilesConfigured, now,
                                               sink_outcome)
     ELSE UNCHANGED <<buy_transactions, redis_tasks, files>>
  /\ last' = [NoLast EXCEPT !.op = "buy", !.space = "buy", !.key = signature,
                            !.payload = e.enhanced_data, !.t = now,
                            !.prev = DashGet(buy_transactions, signature),
                            !.decoded = "Buy", !.mapped = TRUE,
                            !.record = Some(e.raw_log_data), !.snapshot = e.curve_data,
                            !.level = LogLevel(txn.is_monitored_address_involved)]

(* A buy: enrichment, cache_buy_transaction, then the structured log, then *)
(* the human-readable line at the level the watch-list match gives it.     *)
BuyBranch(e, signature, sink_outcome) ==
  /\ cache_buy_transaction(signature, e.enhanced_data, Some(e.mint_address))
  /\ files' = save_raw_cpi_log_to_json(files, e.raw_log_data, MaxFilesConfigured, now, sink_outcome)
  /\ last' = [NoLast EXCEPT !.op = "buy", !.space = "buy", !.key = signature,
                            !.payload = e.enhanced_data, !.t = now,
                            !.prev = DashGet(buy_transactions, signature),
                            !.decoded = "Buy", !.mapped = TRUE,
                            !.record = Some(e.raw_log_data), !.snapshot = e.curve_data,
                            !.level = LogLevel(txn.is_monitored_address_involved)]
TxnBuy(sink_outcome) ==
  /\ CurrentIsTrade("Buy")
  /\ BuyBranch(Enrich(account_data, txn.env, CurrentDecoded[1], CurrentMapped[1], now),
               txn.env.signature, sink_outcome)
  /\ txn' = TxnAdvance(txn)
  /\ UNCHANGED <<pf, now, next_cleanup, sell_transactions, account_data, latest_account_data,
                 latest_reserves, redis, acct, idl, budget>>

(* cache_sell_transaction, in-process part: latest payload and reserves by *)
(* mint, then the insert; the durable write is left to the caller's task.  *)
SellLatest(mint_address, vault_data, reserves) ==
  /\ latest_account_data' = IF mint_address # ""
                            THEN DashInsert(latest_account_data, mint_address, vault_data)
                            ELSE latest_account_data
  /\ latest_reserves' = IF IsSome(reserves)
                        THEN DashInsert(latest_reserves, mint_address, reserves[1])
                        ELSE latest_reserves
cache_sell_transaction(signature, data, mint) ==
  /\ SellLatest(mint[1], SellVaultData(data), SellReserves(account_data, mint))
  /\ sell_transactions' = DashInsert(sell_transactions, signature,
                             CacheItem(SellEnhancedData(account_data, data, mint), now))

(* A sell: enrichment and cache_sell_transaction, whose durable write the  *)
(* loop performs itself before it goes on to the structured log.           *)
SellBranch(e, signature) ==
  /\ cache_sell_transaction(signature, e.enhanced_data, Some(e.mint_address))
  /\ txn' = [txn EXCEPT !.pc = "sell_set",
                        !.op = Some([key |-> RedisTxKey(signature),
                                     data |-> get_item_data(sell_transactions', signature)[1]]),
                        !.pending = Some(e.raw_log_data)]
  /\ last' = [NoLast EXCEPT !.op = "sell", !.space = "sell", !.key = signature,
                            !.payload = e.enhanced_data, !.t = now,
                            !.prev = DashGet(sell_transactions, signature),
                            !.decoded = "Sell", !.mapped = TRUE,
                            !.record = Some(e.raw_log_data), !.snapshot = e.curve_data,
                            !.level = LogLevel(txn.is_monitored_address_involved)]
TxnSell ==
  /\ CurrentIsTrade("Sell")
  /\ SellBranch(Enrich(account_data, txn.env, CurrentDecoded[1], CurrentMapped[1], now),
                txn.env.signature)
  /\ UNCHANGED <<pf, now, next_cleanup, buy_transactions, account_data, redis, redis_tasks,
                 acct, files, idl, budget>>

(* The rest of cache_sell_transaction, run by the loop itself: connect and *)
(* SET, then EXPIRE, on a blocking connection; when it is over the record goes   *)
(* to the structured log and the loop moves on.                            *)
SellStage(pc) == IF pc = "sell_set" THEN "set" ELSE "expire"
SellPc(stage) == IF stage = "expire" THEN "sell_expire" ELSE "sell_hung"
TxnSellDurable(outcome, sink_outcome) ==
  /\ txn.pc \in {"sell_set", "sell_expire"}
  /\ LET r == DurableStep(SellStage(txn.pc), txn.op[1], outcome, redis, now) IN
       /\ redis' = r.store
       /\ IF r.pc = "done"
          THEN /\ files' = save_raw_cpi_log_to_json(files, txn.pending[1], MaxFilesConfigured,
                                                    now, sink_outcome)
               /\ txn' = TxnAdvance(txn)
          ELSE /\ files' = files
               /\ txn' = [txn EXCEPT !.pc = SellPc(r.pc)]
  /\ last' = [NoLast EXCEPT !.op = "step"]
  /\ UNCHANGED <<pf, now, next_cleanup, cacheVars, redis_tasks, acct, idl, budget>>

(* Transaction stream: ping, other tags, end of stream.                    *)
(* TxnPing going on to the next envelope after a failed send.              *)
TxnPing_Tolerant(sent) ==
  /\ txn.pc = "recv"
  /\ budget.envelopes > 0
  /\ txn' = IF sent THEN [txn EXCEPT !.acks = @ + 1] ELSE txn
  /\ Spend("envelopes")
  /\ last' = [NoLast EXCEPT !.op = "ping", !.space = "txn", !.sent = sent]
  /\ UNCHANGED <<pf, now, next_cleanup, cacheVars, redis, redis_tasks, acct, files, idl>>

TxnPing(sent) ==
  /\ txn.pc = "recv"
  /\ budget.envelopes > 0
  /\ txn' = IF sent THEN [txn EXCEPT !.acks = @ + 1] ELSE [txn EXCEPT !.pc = "closed"]
  /\ Spend("envelopes")
  /\ last' = [NoLast EXCEPT !.op = "ping", !.space = "txn", !.sent = sent]
  /\ UNCHANGED <<pf, now, next_cleanup, cacheVars, redis, redis_tasks, acct, files, idl>>

TxnOther ==
  /\ txn.pc = "recv"
  /\ budget.envelopes > 0
  /\ Spend("envelopes")
  /\ last' = [NoLast EXCEPT !.op = "other", !.space = "txn"]
  /\ UNCHANGED <<pf, now, next_cleanup, cacheVars, redis, redis_tasks, txn, acct, files, idl>>

(* TxnClose taking the account stream down with it.                        *)
TxnClose_Both(cause) ==
  /\ txn.pc = "recv"
  /\ budget.envelopes > 0
  /\ txn' = [txn EXCEPT !.pc = "closed"]
  /\ acct' = [acct EXCEPT !.pc = "closed"]
  /\ Spend("envelopes")
  /\ last' = [NoLast EXCEPT !.op = "close", !.space = "txn", !.key = cause]
  /\ UNCHANGED <<pf, now, next_cleanup, cacheVars, redis, redis_tasks, files, idl>>

TxnClose(cause) ==
  /\ txn.pc = "recv"
  /\ budget.envelopes > 0
  /\ txn' = [txn EXCEPT !.pc = "closed"]
  /\ Spend("envelopes")
  /\ last' = [NoLast EXCEPT !.op = "close", !.space = "txn", !.key = cause]
  /\ UNCHANGED <<pf, now, next_cleanup, cacheVars, redis, redis_tasks, acct, files, idl>>

(* A detached durable write takes its next step.                           *)
RedisTask(task, outcome) ==
  /\ task \in redis_tasks
  /\ task.pc \in {"set", "expire"}
  /\ LET r == DurableStep(task.pc, task, outcome, redis, now) IN
       /\ redis' = r.store
       /\ redis_tasks' = (redis_tasks \ {task})
                         \cup (IF r.pc = "done" THEN {} ELSE {[task EXCEPT !.pc = r.pc]})
  /\ last' = [NoLast EXCEPT !.op = "step"]
  /\ UNCHANGED <<pf, now, next_cleanup, cacheVars, txn, acct, files, idl, budget>>

Next ==
  \/ \E d \in TickSteps : Tick(d)
  \/ CleanupTask
  \/ \E update \in AccountUpdates : AcctAccount(update)
  \/ \E update \in AccountUpdates : AcctDecodeError(update)
  \/ \E sent \in BOOLEAN : AcctPing(sent)
  \/ AcctOther
  \/ \E cause \in CloseCauses : AcctClose(cause)
  \/ \E env \in TxnEnvelopes : TxnReceive(env)
  \/ TxnSkip
  \/ \E sink_outcome \in SinkOutcomes : TxnBuy(sink_outcome)
  \/ TxnSell
  \/ \E outcome \in DurableOutcomes, sink_outcome \in SinkOutcomes :
       TxnSellDurable(outcome, sink_outcome)
  \/ \E sent \in BOOLEAN : TxnPing(sent)
  \/ TxnOther
  \/ \E cause \in CloseCauses : TxnClose(cause)
  \/ \E task \in redis_tasks, outcome \in DurableOutcomes : RedisTask(task, outcome)

Spec == Init /\ [][Next]_vars

----------------------------------------------------------------------------
(* Properties of the cache and of the two routing loops.                   *)
SpaceMap(space) ==
  CASE space = "buy" -> buy_transactions
    [] space = "sell" -> sell_transactions
    [] OTHER -> account_data
Spaces == {"buy", "sell", "account"}
IsPut == last.op \in Spaces
(* What a get of the key just put returns.                                 *)
Got == get_item_data(SpaceMap(last.space), last.key)

(* C1 as stated: in each of the three key spaces, a get right after a put  *)
(* of payload v under key k returns exactly v.                             *)
C1_RoundTripExact == IsPut => Got = Some(last.payload)

(* C1 amended: a get right after a put of payload v returns exactly v in   *)
(* the accounts key space, and in the buy and sell key spaces the stored   *)
(* payload, which is v followed by the sections the put appends.           *)
C1_RoundTrip ==
  IsPut => /\ IsSome(Got)
           /\ IF last.space = "account"
              THEN Got[1] = last.payload
              ELSE IsPrefix(last.payload, Got[1])

(* A buy was put and the get returns more than the payload given.          *)
C1_Witness ==
  /\ last.op = "buy"
  /\ IsSome(Got)
  /\ IsPrefix(last.payload, Got[1])
  /\ Got[1] # last.payload

(* C2: after a put under key k, also when k was already present, the key   *)
(* space holds exactly one entry for k; its timestamp is the instant of    *)
(* this put and its value is the one this put wrote.                       *)
C2_LastWriteWins ==
  IsPut =>
    LET held == {e \in SpaceMap(last.space) : e.key = last.key}
    IN  /\ Cardinality(held) = 1
        /\ \A e \in held : /\ e.value.timestamp = last.t
                           /\ IsPrefix(last.payload, e.value.data)
                           /\ last.space = "account" => e.value.data = last.payload

(* A second put under a key replaced an older entry of another value.      *)
C2_Witness ==
  /\ IsPut
  /\ IsSome(last.prev)
  /\ last.prev[1].timestamp < last.t
  /\ IsSome(Got)
  /\ last.prev[1].data # Got[1]

(* C3: a sweep removes from each of the three key spaces every entry whose *)
(* age exceeds the max age (a get then returns absent) and keeps every     *)
(* other entry, which a get still returns.                                 *)
C3_ExpiryBySweep ==
  [][last'.op = "cleanup" =>
       /\ \A e \in buy_transactions :
            get_item_data(buy_transactions', e.key) =
              IF now - e.value.timestamp > MAX_CACHE_AGE_SECS * 1000
              THEN None ELSE Some(e.value.data)
       /\ \A e \in sell_transactions :
            get_item_data(sell_transactions', e.key) =
              IF now - e.value.timestamp > MAX_CACHE_AGE_SECS * 1000
              THEN None ELSE Some(e.value.data)
       /\ \A e \in account_data :
            get_item_data(account_data', e.key) =
              IF now - e.value.timestamp > MAX_CACHE_AGE_SECS * 1000
              THEN None ELSE Some(e.value.data)]_vars

(* A sweep removed an entry and kept another.                              *)
C3_Witness ==
  /\ last.op = "cleanup"
  /\ last.removed # {}
  /\ last.retained # {}

(* C4: a durable write that fails or never completes leaves both routing   *)
(* loops consuming envelopes; in particular the transaction loop is never  *)
(* the one held by a write that never returns.                             *)
C4_DurableFailureNeverStopsRouting ==
  /\ txn.pc # "sell_hung"
  /\ acct.pc \in {"recv", "closed"}

(* C5: after a buy, sell or account put the stream task is at its next     *)
(* step, not waiting for the connection, SET or EXPIRE of the durable      *)
(* write.                                                                  *)
C5_PutDoesNotWait ==
  /\ last.op \in {"buy", "sell"} => txn.pc \in {"recv", "ix"}
  /\ last.op = "account" => acct.pc = "recv"

(* C6: a buy naming mint M processed while a BondingCurve snapshot with    *)
(* reserves (vt, vs) is cached for the curve derived from M yields a       *)
(* record of type Buy, mint M, curve_account C and price vs/vt*0.001.      *)
C6_BuyRecordCarriesPrice ==
  (last.op = "buy" /\ IsSome(last.snapshot)
     /\ IsSome(extract_reserves_from_account_data(last.snapshot[1]))) =>
    LET rec == last.record[1]
        reserves == extract_reserves_from_account_data(last.snapshot[1])[1]
    IN  /\ rec["type"] = "Buy"
        /\ rec["mint"] = M1
        /\ HasField(rec, "curve_account") /\ rec["curve_account"] = PDA_M1
        /\ HasField(rec, "price") /\ rec["price"] = calculate_price(reserves[1], reserves[2])

(* The record of the instruction just processed carries type, mint,        *)
(* signature and time, and no reserve or price field when no snapshot of   *)
(* the derived curve account is cached.                                    *)
RecordComplete ==
  /\ IsSome(last.record)
  /\ {"type", "mint", "signature", "time"} \subseteq DOMAIN last.record[1]
  /\ last.record[1]["type"] = last.decoded
  /\ last.record[1]["signature"] = last.key
  /\ last.snapshot = None =>
       DOMAIN last.record[1]
         \cap {"virtual_token_reserves", "virtual_sol_reserves", "price"} = {}

(* C7 as stated: every buy or sell instruction of the watched program that *)
(* decodes yields such a record.                                           *)
C7_EveryDecodedTradeYieldsRecord ==
  last.decoded \in {"Buy", "Sell"} => RecordComplete

(* C7 amended: every buy or sell instruction that decodes and whose        *)
(* accounts a loaded descriptor declaring the instruction maps to roles    *)
(* yields such a record, whatever the cache holds and whichever roles are  *)
(* found.                                                                  *)
C7_MappedTradeYieldsRecord ==
  (last.decoded \in {"Buy", "Sell"} /\ last.mapped) => RecordComplete

(* A sell whose accounts name no mint, with nothing cached, yielded its    *)
(* record.                                                                 *)
C7_Witness ==
  /\ last.decoded = "Sell"
  /\ last.mapped
  /\ last.snapshot = None
  /\ RecordComplete
  /\ last.record[1]["mint"] = UNKNOWN

(* C14: a sweep leaves the durable tier and the two latest-by-mint indexes *)
(* unchanged, and no step at all removes a key from either latest-by-mint  *)
(* index.                                                                  *)
C14_CleanupFrame ==
  [][/\ last'.op = "cleanup" =>
          /\ redis' = redis
          /\ latest_account_data' = latest_account_data
          /\ latest_reserves' = latest_reserves
     /\ DashKeys(latest_account_data) \subseteq DashKeys(latest_account_data')
     /\ DashKeys(latest_reserves) \subseteq DashKeys(latest_reserves')]_vars

(* A sweep removed entries while the durable tier and both latest-by-mint  *)
(* indexes held data.                                                      *)
C14_Witness ==
  /\ last.op = "cleanup"
  /\ last.removed # {}
  /\ redis # {}
  /\ latest_account_data # {}
  /\ latest_reserves # {}

(* C15: after a BondingCurve snapshot of the curve account of mint M, an   *)
(* enriched buy for M or an enriched sell for M is cached, the             *)
(* latest-payload entry for M is the payload just cached for that event.   *)
C15_LatestIsLastCached ==
  /\ (last.op \in {"buy", "sell"}) =>
       DashGet(latest_account_data, last.record[1]["mint"]) = Got
  /\ (last.op = "account" /\ last.key = PDA_M1 /\ ContainsBondingCurve(last.payload)) =>
       DashGet(latest_account_data, M1) = Got

(* C16: when one stream reports an error or ends, only the routing loop of *)
(* that stream terminates: the other stream's loop and the cleanup timer   *)
(* are left as they are, the other loop can still take its next envelope   *)
(* and the sweep still runs when it is due.                                *)
C16_TransportFailureIsolated ==
  [][/\ (last'.op = "close" /\ last'.key \in {"error", "end"} /\ last'.space = "txn") =>
          (txn'.pc = "closed" /\ acct' = acct /\ next_cleanup' = next_cleanup)
     /\ (last'.op = "close" /\ last'.key \in {"error", "end"} /\ last'.space = "acct") =>
          (acct'.pc = "closed" /\ txn' = txn /\ next_cleanup' = next_cleanup)
     /\ (txn.pc = "closed" /\ acct.pc = "recv" /\ budget.envelopes > 0) =>
          ENABLED (\E update \in AccountUpdates : AcctAccount(update))
     /\ (acct.pc = "closed" /\ txn.pc = "recv" /\ budget.envelopes > 0) =>
          ENABLED (\E env \in TxnEnvelopes : TxnReceive(env))
     /\ ((txn.pc = "closed" \/ acct.pc = "closed") /\ now >= next_cleanup) =>
          ENABLED CleanupTask]_vars

(* C21: an account update whose data does not decode, whether too short,  *)
(* of no known discriminator or of a bad layout, changes no key space of   *)
(* the cache and nothing of the durable tier or of its pending writes, is  *)
(* logged at debug level, and leaves the account loop awaiting the next    *)
(* envelope, which it can take and cache.                                  *)
C21_AccountDecodeErrorIsLocal ==
  [][/\ last'.op = "account_skip" =>
          /\ cacheVars' = cacheVars
          /\ redis' = redis
          /\ redis_tasks' = redis_tasks
          /\ acct' = acct
          /\ acct'.pc = "recv"
          /\ last'.level = "debug"
     /\ (last.op = "account_skip" /\ budget.envelopes > 0) =>
          ENABLED (\E update \in AccountUpdates : AcctAccount(update))]_vars
(* C21 witness: after a snapshot was cached, an update with a bad layout   *)
(* was skipped and the loop awaits the next envelope.                      *)
C21_Witness ==
  /\ last.op = "account_skip"
  /\ last.payload = <<"cannot deserialize BondingCurveAccount">>
  /\ account_data # {}
  /\ acct.pc = "recv"

(* C22: an instruction of the watched program whose data does not decode  *)
(* writes nothing to the cache or the durable tier, appends no structured  *)
(* log record and logs nothing; the loop goes on to the next instruction   *)
(* of the same transaction, and a buy that follows is enriched.            *)
C22_InstructionDecodeErrorSkipped ==
  [][/\ (last'.op = "ix_skip" /\ last'.decoded = "Err") =>
          /\ cacheVars' = cacheVars
          /\ redis' = redis
          /\ redis_tasks' = redis_tasks
          /\ files' = files
          /\ last'.record = None
          /\ last'.level = ""
          /\ txn' = TxnAdvance(txn)
          /\ txn.ip < Len(txn.env.instructions) =>
                (txn'.pc = "ix" /\ txn'.env = txn.env /\ txn'.ip = txn.ip + 1)
     /\ (last.op = "ix_skip" /\ last.decoded = "Err" /\ CurrentIsTrade("Buy") /\ txn' # txn) =>
          /\ last'.op = "buy"
          /\ last'.record = Some(CurrentEnrichment.raw_log_data)
          /\ DashGet(buy_transactions', txn.env.signature) # None]_vars
(* C22 witness: the second instruction of a transaction did not decode and *)
(* the loop is at the third, a buy whose accounts the descriptor maps.     *)
C22_Witness ==
  /\ last.op = "ix_skip"
  /\ last.decoded = "Err"
  /\ txn.ip = 3
  /\ CurrentIsTrade("Buy")

(* Instruction names a descriptor declares.                                *)
DeclaredNames(descriptor) == {descriptor[k].name : k \in 1..Len(descriptor)}

(* C30: an instruction that decodes to a name the loaded descriptor does   *)
(* not declare gets no account list; the loop writes nothing to the cache  *)
(* or the durable tier for it, appends no structured log record and goes   *)
(* on to the next instruction.                                             *)
C30_UndeclaredInstructionSkipped ==
  [][(/\ txn.pc = "ix"
      /\ txn' # txn
      /\ idl # None
      /\ CurrentDecoded # None
      /\ IxName(CurrentDecoded[1]) \notin DeclaredNames(idl[1])) =>
       /\ map_accounts(idl[1], account_metas(txn.env, CurrentInstruction),
                       IxName(CurrentDecoded[1])) = None
       /\ CurrentMapped = None
       /\ last'.op = "ix_skip"
       /\ ~last'.mapped
       /\ last'.record = None
       /\ cacheVars' = cacheVars
       /\ redis' = redis
       /\ redis_tasks' = redis_tasks
       /\ files' = files
       /\ txn' = TxnAdvance(txn)]_vars
(* C30 witness: the first instruction of a transaction decoded to a name   *)
(* the descriptor does not declare, nothing was mapped for it, and the     *)
(* loop is at the second instruction.                                      *)
C30_Witness ==
  /\ last.op = "ix_skip"
  /\ last.decoded = "Other"
  /\ ~last.mapped
  /\ idl # None
  /\ txn.pc = "ix"
  /\ txn.ip = 2

(* The transaction loop has an envelope at hand.                           *)
TxnInFlight == txn.pc \in {"ix", "sell_set", "sell_expire", "sell_hung"}
(* C32: within the transaction stream one envelope is in flight at a time: *)
(* an envelope is taken only when none is at hand, the instructions of the *)
(* envelope at hand are taken one by one in order and it is left only      *)
(* after the last of them, and the transaction and structured-log effects  *)
(* of the stream are those of the envelope at hand; so everything envelope *)
(* n does to the in-process cache and to the structured log is done before *)
(* envelope n+1 is taken.  The account stream handles an update in one     *)
(* step.                                                                   *)
C32_ArrivalOrder ==
  [][/\ last'.op = "recv" => ~TxnInFlight /\ txn.env = NoEnvelope
     /\ (TxnInFlight /\ txn'.env # txn.env) =>
           /\ txn'.env = NoEnvelope /\ txn'.pc = "recv"
           /\ txn.ip = Len(txn.env.instructions)
     /\ (TxnInFlight /\ txn'.env = txn.env /\ txn'.ip # txn.ip) => txn'.ip = txn.ip + 1
     /\ (last'.op # "cleanup"
         /\ (buy_transactions' # buy_transactions \/ sell_transactions' # sell_transactions
             \/ files' # files)) =>
           /\ TxnInFlight
           /\ txn.env # NoEnvelope
           /\ last'.op \in {"buy", "sell"} => last'.key = txn.env.signature
           /\ DashKeys(buy_transactions') \subseteq DashKeys(buy_transactions) \cup {txn.env.signature}
           /\ DashKeys(sell_transactions') \subseteq DashKeys(sell_transactions) \cup {txn.env.signature}]_vars
(* C32 witness: an envelope is taken after the buy of an earlier envelope  *)
(* was cached and recorded in the structured log.                          *)
C32_Witness ==
  /\ last.op = "recv"
  /\ txn.pc = "ix"
  /\ buy_transactions # {}
  /\ files # {}

(* C35: the snapshot the enrichment of a buy or sell reads from            *)
(* account_data is at most MAX_CACHE_AGE_SECS old when it is read, the     *)
(* cleanup task having run at every tick of its interval so far.           *)
C35_SnapshotFreshAtUse ==
  (/\ last.op \in {"buy", "sell"}
   /\ IsSome(last.snapshot)
   /\ last.t < next_cleanup)
  => \A e \in account_data :
        e.value.data = last.snapshot[1] =>
          last.t - e.value.timestamp <= MAX_CACHE_AGE_SECS * 1000

(* C36: every key of the latest-payload and latest-reserves indexes is a   *)
(* well-formed mint address; the placeholder that stands for the mint when *)
(* no account of the instruction is labeled mint is never a key.           *)
C36_LatestKeysAreMints ==
  \A k \in DashKeys(latest_account_data) \cup DashKeys(latest_reserves) :
     IsPubkey(k) /\ k # UNKNOWN

(* With the transaction stream closed, the account stream cached a         *)
(* snapshot.                                                               *)
C16_Witness ==
  /\ txn.pc = "closed"
  /\ acct.pc = "recv"
  /\ last.op = "account"

(* C17: a ping received on a stream is answered by exactly one             *)
(* acknowledgment on that stream's request channel within the step that    *)
(* receives it; when the send fails the loop of that stream ends, no       *)
(* acknowledgment is counted, and the ended loop takes no further step.    *)
C17_KeepAlive ==
  [][/\ (last'.op = "ping" /\ last'.space = "txn") =>
          /\ acct' = acct
          /\ IF last'.sent THEN txn' = [txn EXCEPT !.acks = @ + 1]
                           ELSE txn' = [txn EXCEPT !.pc = "closed"]
     /\ (last'.op = "ping" /\ last'.space = "acct") =>
          /\ txn' = txn
          /\ IF last'.sent THEN acct' = [acct EXCEPT !.acks = @ + 1]
                           ELSE acct' = [acct EXCEPT !.pc = "closed"]
     /\ last'.op # "ping" => (txn'.acks = txn.acks /\ acct'.acks = acct.acks)
     /\ txn.pc = "closed" => txn' = txn
     /\ acct.pc = "closed" => acct' = acct]_vars

(* A first ping was acknowledged and the send for a second one failed.     *)
C17_Witness ==
  /\ last.op = "ping"
  /\ ~last.sent
  /\ last.space = "txn"
  /\ txn.acks = 1
  /\ txn.pc = "closed"

(* C18: an envelope without a recognized tag ends the routing loop of its  *)
(* stream, and a stream whose loop has ended takes no further step: no     *)
(* cache entry of its key spaces is written, no structured log is appended *)
(* by the transaction loop and no acknowledgment is sent.                  *)
C18_NoTagIsTerminal ==
  [][/\ (last'.op = "close" /\ last'.key = "no_tag" /\ last'.space = "txn") =>
          txn'.pc = "closed"
     /\ (last'.op = "close" /\ last'.key = "no_tag" /\ last'.space = "acct") =>
          acct'.pc = "closed"
     /\ txn.pc = "closed" =>
          /\ txn' = txn
          /\ files' = files
          /\ buy_transactions' \subseteq buy_transactions
          /\ sell_transactions' \subseteq sell_transactions
     /\ acct.pc = "closed" =>
          /\ acct' = acct
          /\ account_data' \subseteq account_data]_vars

(* The account stream, after caching a snapshot, received an envelope      *)
(* without tag.                                                            *)
C18_Witness ==
  /\ last.op = "close"
  /\ last.key = "no_tag"
  /\ last.space = "acct"
  /\ acct.pc = "closed"
  /\ account_data # {}

----------------------------------------------------------------------------
(* Vault resolution as a function of the instruction kind and the mapped   *)
(* account list: every list of at most MaxVaultAccounts named accounts.    *)
MaxVaultAccounts == 3
VaultNames == {"creator_vault", "associatedTokenProgram", "rent", "feeRecipient", "mint"}
VaultAddrs == {V1, ATP1, SYSVAR_RENT, SYSTEM_PROGRAM}
VaultAccount == [name : VaultNames, pubkey : VaultAddrs, is_signer : {FALSE}, is_writable : {TRUE}]
VaultAccountLists == UNION {[1..n -> VaultAccount] : n \in 0..MaxVaultAccounts}

VaultInit ==
  /\ InitCommon
  /\ idl = None
  /\ txn = StreamInit("off")
  /\ acct = StreamInit("off")
  /\ budget = [envelopes |-> 0, ticks |-> 0]
  /\ pf \in [ix : {BuyIx(1000, 5000000), SellIx(1000, 5000000)},
          accounts : VaultAccountLists, out : {None}]

VaultApply ==
  /\ pf.out = None
  /\ pf' = [pf EXCEPT !.out =
       Some(extract_raw_cpi_log_data(pf.ix, "sig", pf.accounts, M1, U1, 0,
                                     calculate_curve_account_from_mint(M1), None, None, 0))]
  /\ UNCHANGED <<now, next_cleanup, cacheVars, redis, redis_tasks, txn, acct,
                 files, idl, budget, last>>

VaultNext == VaultApply
SpecVault == VaultInit /\ [][VaultNext]_vars

(* The vault field of a produced record.                                   *)
RecordVault(rec) == IF HasField(rec, "creator_vault") THEN Some(rec["creator_vault"]) ELSE None

HasName(accounts, Test(_)) == \E i \in 1..Len(accounts) : Test(accounts[i].name)
NameCount(accounts, Test(_)) == Cardinality({i \in 1..Len(accounts) : Test(accounts[i].name)})
IsRentName(name) == name = "rent"

(* C8: the stages are tried in the order (a) labeled creator-vault,        *)
(* (b) for sell the associated-token-program account, (c) a rent account   *)
(* that is not sysvar-rent, and the first that yields an address is the    *)
(* resolved vault; so a sell with both a labeled creator-vault and an      *)
(* associated-token-program account resolves to the creator-vault address. *)
C8_StagesInOrder ==
  pf.out # None =>
    LET a == FindAccount(pf.accounts, IsCreatorVaultName)
        b == IF pf.ix.tag = "Sell" THEN FindAccount(pf.accounts, IsAssociatedTokenProgramName) ELSE None
        c == FindAccount(pf.accounts, IsRentName)
        vault == RecordVault(Unwrap(pf.out))
    IN  /\ IsSome(a) => vault = a
        /\ (a = None /\ IsSome(b)) => vault = b
        /\ (a = None /\ b = None /\ IsSome(c) /\ c # Some(SYSVAR_RENT) /\ c # Some(SYSTEM_PROGRAM)) => vault = c

(* C9: with both a labeled creator_vault and a rent account of a different *)
(* address, buy or sell, the resolved vault is the creator_vault address.  *)
C9_LabeledBeatsRent ==
  pf.out # None =>
    LET a == FindAccount(pf.accounts, IsCreatorVaultName)
        c == FindAccount(pf.accounts, IsRentName)
    IN  (IsSome(a) /\ IsSome(c) /\ a # c) => RecordVault(Unwrap(pf.out)) = a

(* The only vault-relevant account is one account labeled rent.            *)
OnlyRent(accounts) ==
  /\ NameCount(accounts, IsRentName) = 1
  /\ ~HasName(accounts, IsCreatorVaultName)
  /\ ~HasName(accounts, IsAssociatedTokenProgramName)
  /\ ~HasName(accounts, IsFeeRecipientName)

(* C10 as stated: a lone rent account whose address differs from the       *)
(* sysvar-rent constant is the resolved vault.                             *)
C10_RentNotSysvar ==
  (pf.out # None /\ OnlyRent(pf.accounts)) =>
    LET c == FindAccount(pf.accounts, IsRentName)
    IN  c # Some(SYSVAR_RENT) => RecordVault(Unwrap(pf.out)) = c

(* C10 amended: a lone rent account whose address differs from both the    *)
(* sysvar-rent constant and the system-program address is the resolved     *)
(* vault.                                                                  *)
C10_RentNotSysvarNorSystem ==
  (pf.out # None /\ OnlyRent(pf.accounts)) =>
    LET c == FindAccount(pf.accounts, IsRentName)
    IN  (c # Some(SYSVAR_RENT) /\ c # Some(SYSTEM_PROGRAM)) => RecordVault(Unwrap(pf.out)) = c

(* A lone rent account carrying an ordinary address was resolved as the    *)
(* vault.                                                                  *)
C10_Witness ==
  /\ pf.out # None
  /\ OnlyRent(pf.accounts)
  /\ FindAccount(pf.accounts, IsRentName) = Some(V1)
  /\ RecordVault(Unwrap(pf.out)) = Some(V1)

(* C11: when the creator-vault, associated-token-program (sell) and rent   *)
(* stages yield nothing and a fee-recipient account with a non-empty       *)
(* address is present, the resolved vault is the fee-recipient address.    *)
C11_FeeRecipientLastResort ==
  pf.out # None =>
    LET a == FindAccount(pf.accounts, IsCreatorVaultName)
        b == IF pf.ix.tag = "Sell" THEN FindAccount(pf.accounts, IsAssociatedTokenProgramName) ELSE None
        c == FindAccount(pf.accounts, IsRentName)
        d == FindAccount(pf.accounts, IsFeeRecipientName)
    IN  (/\ a = None /\ b = None
         /\ (c = None \/ c \in {Some(SYSVAR_RENT), Some(SYSTEM_PROGRAM)})
         /\ IsSome(d) /\ d # Some(""))
        => RecordVault(Unwrap(pf.out)) = d

----------------------------------------------------------------------------
(* Lifetimes of the two tiers.  The cleanup timer fires on time: the clock *)
(* does not pass a tick of the interval before the sweep of that tick has  *)
(* run.  The clock steps to TierLead seconds before a tick and from there  *)
(* to the tick.                                                            *)
MaxTierTicks == 3
TierLead == 10
TierSteps == {TierLead * 1000, (CACHE_CLEANUP_INTERVAL_SECS - TierLead) * 1000}

TierInit ==
  /\ InitCommon
  /\ pf = PfIdle
  /\ idl = Some(IdlPump)
  /\ txn = TxnInit(MonitoredConfigured)
  /\ acct = StreamInit("recv")
  /\ budget = [envelopes |-> MaxEnvelopes, ticks |-> MaxTierTicks]

TierTick(d) ==
  /\ now + d <= next_cleanup
  /\ Tick(d)

TierNext ==
  \/ \E d \in TierSteps : TierTick(d)
  \/ CleanupTask
  \/ \E update \in AccountUpdates : AcctAccount(update)
  \/ \E env \in TxnEnvelopes : TxnReceive(env)
  \/ TxnSkip
  \/ \E sink_outcome \in SinkOutcomes : TxnBuy(sink_outcome)
  \/ \E task \in redis_tasks, outcome \in DurableOutcomes : RedisTask(task, outcome)

SpecTiers == TierInit /\ [][TierNext]_vars

(* The durable mirror of an in-process entry: the durable key of the       *)
(* entry, holding the entry's payload with its expiry armed.               *)
Mirrored(store, durable_key, item) ==
  /\ DashGet(store, durable_key) # None
  /\ DashGet(store, durable_key)[1].data = item.data
  /\ DashGet(store, durable_key)[1].expire_at # NoExpiry

(* C12: an in-process entry whose durable write succeeded does not outlive *)
(* its durable mirror: a step of the clock to an instant at which no sweep *)
(* is due never expires the mirror of an entry that is still in process.   *)
C12_InProcessWithinDurable ==
  [][(now' > now /\ now' < next_cleanup') =>
       /\ \A e \in account_data' :
            (e \in account_data /\ Mirrored(redis, RedisAccountKey(e.key), e.value))
              => DashGet(redis', RedisAccountKey(e.key)) # None
       /\ \A e \in buy_transactions' :
            (e \in buy_transactions /\ Mirrored(redis, RedisTxKey(e.key), e.value))
              => DashGet(redis', RedisTxKey(e.key)) # None]_vars

(* A durable write of the cache that is still under way for the key.       *)
WriteUnderWay(durable_key) ==
  \/ \E task \in redis_tasks : task.key = durable_key
  \/ txn.pc \in {"sell_set", "sell_expire", "sell_hung"} /\ txn.op[1].key = durable_key

(* C13: whatever the outcomes of SET and EXPIRE, once the writes for a key *)
(* are over the key is in the durable store only with its expiry armed.    *)
C13_EveryDurableKeyExpires ==
  \A e \in redis : ~WriteUnderWay(e.key) => e.value.expire_at # NoExpiry

----------------------------------------------------------------------------
(* The watch list.  The transaction loop is subscribed with one of several *)
(* lists of user addresses: none, the signer of the transactions, another  *)
(* of their accounts, the program id itself, an address they do not touch. *)
AddressLists == { {}, {U1}, {F1}, {PUMP_PROGRAM_ID}, {M2}, {U1, PUMP_PROGRAM_ID} }
WatchInit ==
  /\ InitCommon
  /\ pf = PfIdle
  /\ idl = Some(IdlPump)
  /\ txn \in {TxnInit(addresses) : addresses \in AddressLists}
  /\ acct = StreamInit("recv")
  /\ budget = [envelopes |-> MaxEnvelopes, ticks |-> MaxTicks]
WatchNext ==
  \/ \E update \in AccountUpdates : AcctAccount(update)
  \/ \E env \in TxnEnvelopes : TxnReceive(env)
  \/ TxnSkip
  \/ \E sink_outcome \in SinkOutcomes : TxnBuy(sink_outcome)
  \/ TxnSell
  \/ \E outcome \in DurableOutcomes, sink_outcome \in SinkOutcomes :
       TxnSellDurable(outcome, sink_outcome)
  \/ \E task \in redis_tasks, outcome \in DurableOutcomes : RedisTask(task, outcome)
SpecWatch == WatchInit /\ [][WatchNext]_vars

C20_ProgramIdNeverMatches ==
  last.op = "recv" =>
    last.matched = (\E i \in 1..Len(txn.env.account_keys) :
                      txn.env.account_keys[i] \in txn.account_include \ {PUMP_PROGRAM_ID})
(* C20 witness: a transaction received that carries the program id among   *)
(* its account keys, the program id in the request's list, and no match.   *)
C20_Witness ==
  /\ last.op = "recv"
  /\ ~last.matched
  /\ PUMP_PROGRAM_ID \in txn.account_include
  /\ \E i \in 1..Len(txn.env.account_keys) : txn.env.account_keys[i] = PUMP_PROGRAM_ID

----------------------------------------------------------------------------
(* The structured log sink on its own: appends of records of two           *)
(* transactions and two kinds, at a clock that may or may not have moved   *)
(* between two appends, under each configured maximum; pf holds the        *)
(* configured maximum and the appends made so far.                         *)
MaxAppends == 3
MaxSinkClock == 2
SinkMaxFiles == {0, 1, 2}
SinkLogs == {[signature |-> sig, type |-> type] : sig \in {SIG1, SIG2}, type \in {"Buy", "Sell"}}
SinkInit ==
  /\ InitCommon
  /\ pf \in {[max_files |-> n, appended |-> <<>>] : n \in SinkMaxFiles}
  /\ idl = None
  /\ txn = StreamInit("off")
  /\ acct = StreamInit("off")
  /\ budget = [envelopes |-> MaxAppends, ticks |-> MaxSinkClock]
SinkAppend(log_data, outcome) ==
  /\ budget.envelopes > 0
  /\ files' = save_raw_cpi_log_to_json(files, log_data, pf.max_files, now, outcome)
  /\ pf' = [pf EXCEPT !.appended = Append(@, [log |-> log_data, at |-> now, outcome |-> outcome])]
  /\ Spend("envelopes")
  /\ last' = [NoLast EXCEPT !.op = "append", !.key = log_data["signature"], !.t = now,
                            !.decoded = outcome,
                            !.removed = {f \in files : \A g \in files' : g.name # f.name}]
  /\ UNCHANGED <<now, next_cleanup, cacheVars, redis, redis_tasks, txn, acct, idl>>
SinkTick ==
  /\ budget.ticks > 0
  /\ now' = now + 1
  /\ Spend("ticks")
  /\ last' = [NoLast EXCEPT !.op = "tick"]
  /\ UNCHANGED <<pf, next_cleanup, cacheVars, redis, redis_tasks, txn, acct, files, idl>>
SinkNext ==
  \/ \E log_data \in SinkLogs, outcome \in SinkOutcomes : SinkAppend(log_data, outcome)
  \/ SinkTick
SpecSink == SinkInit /\ [][SinkNext]_vars

(* What a file of the directory holds, and what an append put there.       *)
FileEntry(f) == [signature |-> f.signature, type |-> f.type, at |-> f.mtime]
AppendEntry(a) == [signature |-> a.log["signature"], type |-> a.log["type"], at |-> a.at]
AllCompleted == \A i \in 1..Len(pf.appended) : pf.appended[i].outcome = "ok"
LastAppended(n) ==
  {AppendEntry(pf.appended[i]) : i \in (Len(pf.appended) - n + 1)..Len(pf.appended)}

(* C23: with a maximum N > 0 and appends that all completed, the directory *)
(* never holds more than N files, and after N+1 appends it holds exactly N *)
(* files, those of the N entries appended last.                            *)
C23_Retention ==
  (pf.max_files > 0 /\ AllCompleted) =>
     /\ Cardinality(files) <= pf.max_files
     /\ Len(pf.appended) = pf.max_files + 1 =>
          /\ Cardinality(files) = pf.max_files
          /\ {FileEntry(f) : f \in files} = LastAppended(pf.max_files)

(* C24: an append that completes with its deletions done on a directory    *)
(* holding more than the maximum N > 0 leaves exactly N files, and no file *)
(* it removed from the directory is newer than a file it left there.       *)
C24_RetentionSelfCorrects ==
  [][(last'.op = "append" /\ last'.decoded = "ok" /\ pf.max_files > 0
        /\ Cardinality(files) > pf.max_files) =>
       /\ Cardinality(files') = pf.max_files
       /\ \A r \in last'.removed, k \in files' : r.mtime <= k.mtime]_vars
(* C24 witness: after an append whose deletion failed left two files under *)
(* a maximum of one, a later append brought the directory back to one      *)
(* file, removing both older ones.                                         *)
C24_Witness ==
  /\ last.op = "append"
  /\ last.decoded = "ok"
  /\ pf.max_files = 1
  /\ Len(pf.appended) = 3
  /\ pf.appended[2].outcome = "remove_err"
  /\ Cardinality(last.removed) = 2
  /\ Cardinality(files) = 1

(* C39: with a maximum of at least 1, the file an append wrote is in the   *)
(* directory when the append returns, whatever the modification times of   *)
(* the other files.                                                        *)
C39_AppendKeepsOwnEntry ==
  [][(last'.op = "append" /\ last'.decoded = "ok" /\ pf.max_files >= 1) =>
       \E f \in files' : f.name = <<ShortSig(last'.key), now>>]_vars

(* C25: an append that writes its file never writes over the file of an    *)
(* entry appended before: no file of that name is in the directory.        *)
C25_OneFilePerEntry ==
  [][(last'.op = "append" /\ last'.decoded # "write_err") =>
       \A f \in files : f.name # <<ShortSig(last'.key), now>>]_vars

----------------------------------------------------------------------------
(* The two numerical functions on their own: pf holds the function, its    *)
(* two arguments and, once it has been applied, its result.                *)
(* Token reserves stay where vt * 1000 is an integer of the checker.       *)
PriceTokenReserves == {0, 1, 2, 3, 7, 1000, 30000, 1000000, 2000000}
PriceSolReserves == {0, 1, 2, 3, 7, 1000, 30000, 1000000, 1000000000}
FeeAmounts == {0, 1, 9999, 10000, 12345, 107375, 1000000, 10737419, WordMax \div 2, WordMax}
FeeBasisPoints == {0, 1, 100, 250, 10000, 10001, WordMax \div 2, WordMax}
NumInit ==
  /\ InitCommon
  /\ pf \in {[fn |-> "price", a |-> vt, b |-> vs, out |-> None] :
               vt \in PriceTokenReserves, vs \in PriceSolReserves}
            \cup {[fn |-> "fee", a |-> amount, b |-> bps, out |-> None] :
                     amount \in FeeAmounts, bps \in FeeBasisPoints}
  /\ idl = None
  /\ txn = StreamInit("off")
  /\ acct = StreamInit("off")
  /\ budget = [envelopes |-> 0, ticks |-> 0]
NumPrice ==
  /\ pf.fn = "price"
  /\ pf.out = None
  /\ pf' = [pf EXCEPT !.out = Some(calculate_price(pf.a, pf.b))]
  /\ last' = [NoLast EXCEPT !.op = "price"]
  /\ UNCHANGED <<now, next_cleanup, cacheVars, redis, redis_tasks, txn, acct, files, idl, budget>>
NumFee ==
  /\ pf.fn = "fee"
  /\ pf.out = None
  /\ pf' = [pf EXCEPT !.out = Some(calculate_creator_fee(pf.a, pf.b))]
  /\ last' = [NoLast EXCEPT !.op = "fee"]
  /\ UNCHANGED <<now, next_cleanup, cacheVars, redis, redis_tasks, txn, acct, files, idl, budget>>
NumNext == NumPrice \/ NumFee
SpecNum == NumInit /\ [][NumNext]_vars

(* C26: the price of a reserve pair is 0 when the token reserve is 0 and   *)
(* otherwise the fraction vs / (vt * 1000), in lowest terms with a         *)
(* positive denominator: no division by zero takes place, and the price of *)
(* (1 000 000, 1 000 000 000) is 1.                                        *)
C26_Price ==
  (pf.fn = "price" /\ pf.out # None) =>
     LET price == pf.out[1] IN
       /\ pf.a = 0 => price = <<0, 1>>
       /\ pf.a # 0 =>
            /\ price[2] > 0
            /\ (pf.a * 1000) % price[2] = 0
            /\ price[1] * ((pf.a * 1000) \div price[2]) = pf.b
       /\ (pf.a = 1000000 /\ pf.b = 1000000000) => price = <<1, 1>>
(* C26 witness: the price of the pair (1 000 000, 1 000 000 000) has been  *)
(* computed.                                                               *)
C26_Witness ==
  /\ pf.fn = "price"
  /\ pf.a = 1000000
  /\ pf.b = 1000000000
  /\ pf.out = Some(<<1, 1>>)

(* C27: when amount * fee_basis_points fits the word the fee is the floor  *)
(* of the product over 10000; when it does not, the fee is still a value   *)
(* of the word.                                                            *)
C27_Fee ==
  (pf.fn = "fee" /\ pf.out # None) =>
     IF pf.b = 0 \/ pf.a <= WordMax \div pf.b
     THEN pf.out[1] = (pf.a * pf.b) \div 10000
     ELSE pf.out[1] \in 0..WordMax
(* C27 witness: a fee was computed for a product that does not fit the     *)
(* word, and it is not the saturated value.                                *)
C27_Witness ==
  /\ pf.fn = "fee"
  /\ pf.out # None
  /\ pf.b # 0
  /\ pf.a > WordMax \div pf.b
  /\ pf.out[1] > 0
  /\ pf.out[1] < WordMax

----------------------------------------------------------------------------
(* The account decoder on its own.  Buffers: shorter than a discriminator, *)
(* where disc is whatever bytes there are; of an unknown discriminator; of *)
(* a known one, with a rest that does or does not satisfy the layout.      *)
DecodeReserves == {0, 1, 500000, 250000000}
DecodeBuffers ==
  {Buffer(size, disc, None) :
     size \in 0..7, disc \in {"", "discm:Bon"}}
  \cup {Buffer(size, disc, None) :
          size \in {8, 49, 113}, disc \in {"discm:other", "discm:create"}}
  \cup {Buffer(size, disc, None) :
          size \in {8, 20, 48, 112},
          disc \in {BONDING_CURVE_ACCOUNT_DISCM, GLOBAL_ACCOUNT_DISCM}}
  \cup {Buffer(size, BONDING_CURVE_ACCOUNT_DISCM, Some(BondingCurveFields(vt, vs))) :
          size \in {49, 60}, vt \in DecodeReserves, vs \in DecodeReserves}
  \cup {Buffer(size, GLOBAL_ACCOUNT_DISCM, Some(GlobalFields)) : size \in {113, 120}}
DecodeInit ==
  /\ InitCommon
  /\ pf \in {[buf |-> buf, out |-> None] : buf \in DecodeBuffers}
  /\ idl = None
  /\ txn = StreamInit("off")
  /\ acct = StreamInit("off")
  /\ budget = [envelopes |-> 0, ticks |-> 0]
DecodeApply ==
  /\ pf.out = None
  /\ pf' = [pf EXCEPT !.out = Some(decode_account_data(pf.buf))]
  /\ last' = [NoLast EXCEPT !.op = "decode"]
  /\ UNCHANGED <<now, next_cleanup, cacheVars, redis, redis_tasks, txn, acct, files, idl, budget>>
DecodeNext == DecodeApply
SpecDecode == DecodeInit /\ [][DecodeNext]_vars

KnownDiscriminators == {BONDING_CURVE_ACCOUNT_DISCM, GLOBAL_ACCOUNT_DISCM}
DecodedKind(disc) == IF disc = BONDING_CURVE_ACCOUNT_DISCM THEN "BondingCurve" ELSE "Global"
DeserializeError(disc) ==
  IF disc = BONDING_CURVE_ACCOUNT_DISCM THEN "cannot deserialize BondingCurveAccount"
  ELSE "cannot deserialize GlobalAccount"

(* C28: decoding always returns.  A buffer under 8 bytes fails as too      *)
(* short; one of 8 bytes or more with an unknown discriminator fails as    *)
(* matching no discriminator; one with a known discriminator decodes to    *)
(* that type exactly when its rest satisfies the layout, and otherwise     *)
(* fails with a deserialization error that names the type.                 *)
C28_DecodeTotal ==
  pf.out # None =>
    LET buf == pf.buf
        out == pf.out[1]
    IN  /\ buf.size < 8 => (~out.ok /\ out.message = "buffer too short")
        /\ (buf.size >= 8 /\ buf.disc \notin KnownDiscriminators) =>
             (~out.ok /\ out.message = "no matching discriminator")
        /\ (buf.size >= 8 /\ buf.disc \in KnownDiscriminators) =>
             /\ out.ok <=> IsSome(buf.body)
             /\ out.ok => (out.kind = DecodedKind(buf.disc) /\ out.fields = buf.body[1])
             /\ ~out.ok => out.message = DeserializeError(buf.disc)
(* C28 witness: a buffer carrying the bonding-curve discriminator and a    *)
(* rest that is too short was refused with the error naming the type.      *)
C28_Witness ==
  /\ pf.out # None
  /\ pf.buf.size = 20
  /\ pf.buf.disc = BONDING_CURVE_ACCOUNT_DISCM
  /\ ~pf.out[1].ok

----------------------------------------------------------------------------
(* Idl::map_accounts on its own: descriptors declaring "buy" with the      *)
(* first d of the roles, lists of up to MaxMapAccounts supplied accounts,  *)
(* and a declared or an undeclared instruction name.                       *)
MaxMapAccounts == 3
MapDeclared == {0, 1, 2, 5}
MapIdl(d) == << [name |-> "buy", accounts |-> SubSeq(IdlRoles("creator_vault"), 1, d)] >>
MapMetas == {AccountMeta(pubkey, is_signer, TRUE) : pubkey \in {U1, M1}, is_signer \in BOOLEAN}
MapAccountLists == UNION {[1..n -> MapMetas] : n \in 0..MaxMapAccounts}
MapInit ==
  /\ InitCommon
  /\ pf \in {[idl |-> MapIdl(d), accounts |-> accounts, name |-> name, out |-> None] :
               d \in MapDeclared, accounts \in MapAccountLists, name \in {"buy", "create"}}
  /\ idl = None
  /\ txn = StreamInit("off")
  /\ acct = StreamInit("off")
  /\ budget = [envelopes |-> 0, ticks |-> 0]
MapApply ==
  /\ pf.out = None
  /\ pf' = [pf EXCEPT !.out = Some(map_accounts(pf.idl, pf.accounts, pf.name))]
  /\ last' = [NoLast EXCEPT !.op = "map"]
  /\ UNCHANGED <<now, next_cleanup, cacheVars, redis, redis_tasks, txn, acct, files, idl, budget>>
MapNext == MapApply
SpecMap == MapInit /\ [][MapNext]_vars

(* C29: for a declared instruction with d declared accounts and n supplied *)
(* accounts the mapping has n elements; the i-th carries the i-th supplied *)
(* address, under the i-th declared name when there is one and under the   *)
(* name of the remaining account numbered from 1 otherwise.                *)
C29_MappingPositional ==
  (pf.out # None /\ pf.name = "buy") =>
     LET declared == pf.idl[1].accounts
         d == Len(declared)
         result == pf.out[1]
     IN  /\ result # None
         /\ Len(result[1]) = Len(pf.accounts)
         /\ \A i \in 1..Len(pf.accounts) :
              /\ result[1][i].pubkey = pf.accounts[i].pubkey
              /\ i <= d => result[1][i].name = declared[i].name
              /\ i > d => result[1][i].name = RemainingName(i - d)
(* C29 witness: three accounts were mapped under a descriptor declaring    *)
(* one, giving one declared name and the remaining accounts 1 and 2.       *)
C29_Witness ==
  /\ pf.out # None
  /\ pf.name = "buy"
  /\ Len(pf.idl[1].accounts) = 1
  /\ Len(pf.accounts) = 3
  /\ pf.out[1] # None
  /\ pf.out[1][1][1].name = "global"
  /\ pf.out[1][1][2].name = "Remaining accounts 1"
  /\ pf.out[1][1][3].name = "Remaining accounts 2"

----------------------------------------------------------------------------
(* The reverse resolution of a mint on its own: the text of a bonding      *)
(* curve snapshot of the queried address goes through                      *)
(* extract_mint_address_from_account_data.  The addresses queried are the  *)
(* curve addresses of the allow-list and of another mint, a mint of the    *)
(* list itself, and other well-formed and ill-formed addresses.            *)
MintQueries ==
  {find_program_address(common_mints[i]) : i \in 1..Len(common_mints)}
  \cup {PDA_M2, M1, G1, U1, "not-an-address"}
MintInit ==
  /\ InitCommon
  /\ pf \in {[curve |-> curve, fields |-> BondingCurveFields(vt, vs), out |-> None] :
               curve \in MintQueries, vt \in DecodeReserves, vs \in DecodeReserves}
  /\ idl = None
  /\ txn = StreamInit("off")
  /\ acct = StreamInit("off")
  /\ budget = [envelopes |-> 0, ticks |-> 0]
MintApply ==
  /\ pf.out = None
  /\ pf' = [pf EXCEPT !.out = Some(extract_mint_address_from_account_data(
                                      BondingCurveInfo(pf.curve, pf.fields, now)))]
  /\ last' = [NoLast EXCEPT !.op = "resolve"]
  /\ UNCHANGED <<now, next_cleanup, cacheVars, redis, redis_tasks, txn, acct, files, idl, budget>>
MintNext == MintApply
SpecMint == MintInit /\ [][MintNext]_vars

(* C31: the reverse resolution of a curve address returns the first mint   *)
(* of the allow-list whose derived curve address is the one queried, and   *)
(* nothing when there is none: a returned mint derives to the queried      *)
(* address, and the curve address derived from a mint of the allow-list    *)
(* resolves to that mint.                                                  *)
C31_ReverseMintRoundTrip ==
  pf.out # None =>
    LET resolved == pf.out[1]
        matching == {i \in 1..Len(common_mints) :
                       calculate_curve_account_from_mint(common_mints[i]) = Some(pf.curve)}
    IN  /\ resolved = None <=> matching = {}
        /\ resolved # None =>
             /\ calculate_curve_account_from_mint(resolved[1]) = Some(pf.curve)
             /\ \E i \in matching : /\ resolved[1] = common_mints[i]
                                    /\ \A j \in matching : i <= j
        /\ \A i \in 1..Len(common_mints) :
             pf.curve = calculate_curve_account_from_mint(common_mints[i])[1] =>
               resolved = Some(common_mints[i])
(* C31 witness: the curve address derived from the third mint of the       *)
(* allow-list resolved to that mint.                                       *)
C31_Witness ==
  /\ pf.out # None
  /\ pf.curve = find_program_address(common_mints[3])
  /\ pf.out[1] = Some(common_mints[3])

----------------------------------------------------------------------------
(* The durable mirror when every durable command succeeds: the account     *)
(* stream's snapshot puts, the transaction stream's buys, the passing of   *)
(* time, and the detached writes, each of which connects, SETs and EXPIREs *)
(* without error, scheduled in any order.                                  *)
MirrorNext ==
  \/ \E d \in TickSteps : Tick(d)
  \/ \E update \in AccountUpdates : AcctAccount(update)
  \/ \E env \in TxnEnvelopes : TxnReceive(env)
  \/ TxnSkip
  \/ \E sink_outcome \in SinkOutcomes : TxnBuy(sink_outcome)
  \/ \E task \in redis_tasks : RedisTask(task, "ok")
SpecMirror == Init /\ [][MirrorNext]_vars

(* The durable tier agrees with an in-process key space on a key: no       *)
(* detached write of the key is still under way, the durable tier holds    *)
(* the key, and its value is the payload held in process.                  *)
MirrorSettled(map, key, redis_key) ==
  (/\ DashGet(map, key) # None
   /\ DashGet(RedisLive(redis, now), redis_key) # None
   /\ \A task \in redis_tasks : task.key # redis_key)
  => DashGet(redis, redis_key)[1].data = DashGet(map, key)[1].data

(* C33: once the detached durable writes issued for a key have all         *)
(* completed successfully, and before the durable expiry, the durable tier *)
(* holds for the key the payload the in-process tier holds: after          *)
(* put(k, v1) then put(k, v2) it does not hold v1.                         *)
C33_DurableMirrorConverges ==
  /\ \A pubkey \in DashKeys(account_data) :
        MirrorSettled(account_data, pubkey, RedisAccountKey(pubkey))
  /\ \A signature \in DashKeys(buy_transactions) :
        MirrorSettled(buy_transactions, signature, RedisTxKey(signature))

----------------------------------------------------------------------------
(* The two routing loops as the tasks they are, each spawned on the        *)
(* multi-threaded runtime: cache_account_data and cache_sell_transaction   *)
(* take no lock across their map operations, so the operations of one      *)
(* interleave with those of the other.  An account put is the insert into  *)
(* account_data, then the inserts by mint; a sell is the insert of the     *)
(* latest payload and the read of the curve's snapshot, then the insert of *)
(* the reserves read and of the payload, then the durable write.           *)
RaceEnvelopes == 3
RaceUpdates ==
  {[pubkey |-> PDA_M1,
    data |-> Buffer(49, BONDING_CURVE_ACCOUNT_DISCM, Some(BondingCurveFields(vt, vs)))] :
      vt \in {500000, 400000}, vs \in {250000000}}
RaceSell == Envelope(SIG1, <<IxSell>>)
RaceInit ==
  /\ InitCommon
  /\ pf = PfIdle
  /\ idl = Some(IdlPump)
  /\ txn = TxnInit(MonitoredConfigured)
  /\ acct = StreamInit("recv")
  /\ budget = [envelopes |-> RaceEnvelopes, ticks |-> MaxTicks]

(* cache_account_data up to the insert into account_data.                  *)
RaceAcctInsert(update) ==
  LET decoded == decode_account_data(update.data)
      account_info == BondingCurveInfo(update.pubkey, decoded.fields, now)
  IN  /\ acct.pc = "recv"
      /\ budget.envelopes > 0
      /\ decoded.ok
      /\ account_data' = DashInsert(account_data, update.pubkey, CacheItem(account_info, now))
      /\ acct' = [acct EXCEPT !.pc = "latest", !.op = Some(account_info)]
      /\ Spend("envelopes")
      /\ last' = [NoLast EXCEPT !.op = "account", !.space = "account", !.key = update.pubkey,
                                !.payload = account_info, !.t = now,
                                !.prev = DashGet(account_data, update.pubkey)]
      /\ UNCHANGED <<pf, now, next_cleanup, buy_transactions, sell_transactions,
                     latest_account_data, latest_reserves, redis, redis_tasks, txn, files, idl>>

(* The rest of cache_account_data: the inserts by mint and the spawn of    *)
(* the durable write.                                                      *)
RaceAcctLatest ==
  LET account_info == acct.op[1]
      mint == extract_mint_address_from_account_data(account_info)
      reserves == extract_reserves_from_account_data(account_info)
  IN  /\ acct.pc = "latest"
      /\ latest_account_data' = IF IsSome(mint)
                                THEN DashInsert(latest_account_data, mint[1], account_info)
                                ELSE latest_account_data
      /\ latest_reserves' = IF IsSome(mint) /\ IsSome(reserves)
                            THEN DashInsert(latest_reserves, mint[1], reserves[1])
                            ELSE latest_reserves
      /\ redis_tasks' = Spawn(redis_tasks, <<EnvelopeNo, 0>>,
                               RedisAccountKey(last.key), account_info)
      /\ acct' = [acct EXCEPT !.pc = "recv", !.op = None]
      /\ last' = [NoLast EXCEPT !.op = "step", !.key = last.key]
      /\ UNCHANGED <<pf, now, next_cleanup, buy_transactions, sell_transactions, account_data,
                     redis, txn, files, idl, budget>>

(* What the sell read of the curve's snapshot, as a map of its own.        *)
ReadMap(curve, read) ==
  IF read = None THEN {} ELSE {[key |-> curve, value |-> CacheItem(read[1], 0)]}

(* A sell of the mint arrives and is enriched; cache_sell_transaction      *)
(* inserts the latest payload of the mint and reads the curve's snapshot.  *)
RaceSellRead ==
  LET ix == RaceSell.instructions[1]
      decoded == PumpProgramIxDeserialize(ix.data)[1]
      mapped == MappedAccounts(idl, RaceSell, ix, decoded)[1]
      e == Enrich(account_data, RaceSell, decoded, mapped, now)
      curve == calculate_curve_account_from_mint(e.mint_address)[1]
  IN  /\ txn.pc = "recv"
      /\ budget.envelopes > 0
      /\ latest_account_data' = DashInsert(latest_account_data, e.mint_address,
                                           SellVaultData(e.enhanced_data))
      /\ txn' = [txn EXCEPT !.pc = "sell_read", !.env = RaceSell, !.ip = 1,
                            !.op = Some([mint |-> e.mint_address, data |-> e.enhanced_data,
                                         read |-> ReadMap(curve, get_item_data(account_data, curve))]),
                            !.pending = Some(e.raw_log_data)]
      /\ Spend("envelopes")
      /\ last' = [NoLast EXCEPT !.op = "recv", !.key = RaceSell.signature]
      /\ UNCHANGED <<pf, now, next_cleanup, buy_transactions, sell_transactions, account_data,
                     latest_reserves, redis, redis_tasks, acct, files, idl>>

(* cache_sell_transaction goes on with what it read: the reserves by mint  *)
(* and the payload under the signature; the durable write follows.         *)
RaceSellWrite ==
  LET held == txn.op[1]
      reserves == SellReserves(held.read, Some(held.mint))
      signature == txn.env.signature
  IN  /\ txn.pc = "sell_read"
      /\ latest_reserves' = IF IsSome(reserves)
                            THEN DashInsert(latest_reserves, held.mint, reserves[1])
                            ELSE latest_reserves
      /\ sell_transactions' = DashInsert(sell_transactions, signature,
                                 CacheItem(SellEnhancedData(held.read, held.data, Some(held.mint)), now))
      /\ txn' = [txn EXCEPT !.pc = "sell_set",
                            !.op = Some([key |-> RedisTxKey(signature),
                                         data |-> get_item_data(sell_transactions', signature)[1]])]
      /\ last' = [NoLast EXCEPT !.op = "sell", !.space = "sell", !.key = signature, !.t = now]
      /\ UNCHANGED <<pf, now, next_cleanup, buy_transactions, account_data, latest_account_data,
                     redis, redis_tasks, acct, files, idl, budget>>

RaceNext ==
  \/ \E update \in RaceUpdates : RaceAcctInsert(update)
  \/ RaceAcctLatest
  \/ RaceSellRead
  \/ RaceSellWrite
  \/ \E outcome \in DurableOutcomes, sink_outcome \in SinkOutcomes :
       TxnSellDurable(outcome, sink_outcome)
SpecRace == RaceInit /\ [][RaceNext]_vars

(* C34: for the mint M1 of the allow-list and its curve account, whenever  *)
(* neither loop is inside an operation and both the snapshot of the curve  *)
(* in account_data and the entry of the mint in latest_reserves exist, the *)
(* pair in latest_reserves is the virtual reserve pair of that snapshot.   *)
C34_LatestReservesFresh ==
  (/\ txn.pc = "recv"
   /\ acct.pc = "recv"
   /\ DashGet(account_data, PDA_M1) # None
   /\ DashGet(latest_reserves, M1) # None)
  => Some(DashGet(latest_reserves, M1)[1])
       = extract_reserves_from_account_data(DashGet(account_data, PDA_M1)[1].data)

----------------------------------------------------------------------------
(* The roles of an instruction's accounts on their own: a buy of the pump  *)
(* program whose account references are drawn from indexes inside the      *)
(* transaction's account keys and one outside of them goes through         *)
(* account_metas and map_accounts.                                         *)
MaxRoleAccounts == 3
RoleIndexes == {0, 2, 4, Len(AccountKeys) + 1}
RoleInstructions ==
  {Instruction(1, IxBuy.data, accounts) :
     accounts \in UNION {[1..n -> RoleIndexes] : n \in 0..MaxRoleAccounts}}
RolesInit ==
  /\ InitCommon
  /\ pf \in {[env |-> Envelope(SIG1, <<instruction>>), instruction |-> instruction,
              out |-> None] : instruction \in RoleInstructions}
  /\ idl = Some(IdlPump)
  /\ txn = StreamInit("off")
  /\ acct = StreamInit("off")
  /\ budget = [envelopes |-> 0, ticks |-> 0]
RolesApply ==
  /\ pf.out = None
  /\ pf' = [pf EXCEPT !.out = Some(MappedAccounts(idl, pf.env, pf.instruction,
                                      PumpProgramIxDeserialize(pf.instruction.data)[1]))]
  /\ last' = [NoLast EXCEPT !.op = "map"]
  /\ UNCHANGED <<now, next_cleanup, cacheVars, redis, redis_tasks, txn, acct, files, idl, budget>>
RolesNext == RolesApply
SpecRoles == RolesInit /\ [][RolesNext]_vars

(* C37: the k-th account reference of an instruction of the watched        *)
(* program is labeled with the k-th account name its descriptor declares,  *)
(* also when another reference of the instruction points outside the       *)
(* transaction's account keys.                                             *)
C37_RolesFollowPositions ==
  pf.out # None =>
    LET declared == idl[1][1].accounts
        refs == pf.instruction.accounts
        mapped == pf.out[1][1]
    IN  \A k \in 1..Len(refs) :
          (k <= Len(declared) /\ refs[k] < Len(pf.env.account_keys)) =>
             \E i \in 1..Len(mapped) :
                /\ mapped[i].pubkey = pf.env.account_keys[refs[k] + 1]
                /\ mapped[i].name = declared[k].name

----------------------------------------------------------------------------
(* The creator-vault sections of a cached payload: the positions of its    *)
(* header lines.                                                           *)
VaultHeaders(payload) == {i \in 1..Len(payload) : payload[i].l = VAULT_HEADER}

(* C38: the payload a buy or sell put stores under the signature has the   *)
(* creator-vault section exactly once, with the address the enrichment     *)
(* resolved, when it resolved one, and no creator-vault section when it    *)
(* resolved none.                                                          *)
C38_PayloadVaultAgrees ==
  (last.op \in {"buy", "sell"} /\ Got # None) =>
    LET stored == Got[1]
        resolved == RecordVault(last.record[1])
    IN  IF IsSome(resolved)
        THEN /\ Cardinality(VaultHeaders(stored)) = 1
             /\ \A i \in VaultHeaders(stored) :
                   i < Len(stored) /\ stored[i + 1].s = resolved[1]
        ELSE VaultHeaders(stored) = {}

====
